---- MODULE Spec2Model ----
(***************************************************************************)
(* State-machine model of the polyarb real-time arbitrage detector         *)
(* (src/src/polyarb/api/websocket.py), of the paper trading engine         *)
(* (src/src/polyarb/paper_trading/engine.py), of the order book            *)
(* (src/src/polyarb/models.py), of the feed client (WebSocketClient in     *)
(* api/websocket.py), of the CLOB client (api/clob.py) and of the binary   *)
(* strategy (strategies/binary_arb.py).                                    *)
(*                                                                         *)
(* Numbers.  Prices, total_cost and total_value are counted in cents       *)
(* (1.0 dollar = Unit = 100).  profit_percent is the exact fraction        *)
(* <<num, den>>.  Engine sizes are counted in cents and engine money       *)
(* (balance, cost, return, profit) in 1/100 of a cent, so that             *)
(* size * total_cost is exact.  Python floats are modelled by these exact  *)
(* values; binary rounding error is outside the model.                     *)
(* An optional value is <<>> (None) or <<v>>.                              *)
(*                                                                         *)
(* Time.  datetime.now() reads the variable clock.  The operations of the  *)
(* price states are stepped one by one under SpecState, where the clock    *)
(* advances with every call.  Under the other specifications the clock    *)
(* stands still: the detector writes last_update through update_price and  *)
(* reads it nowhere, and of the times the engine stamps the model keeps    *)
(* the session's end_time only.                                            *)
(***************************************************************************)
EXTENDS Integers, Sequences, FiniteSets

VARIABLES
    \* RealtimeArbitrageDetector
    binary_markets,        \* market_id -> MarketState
    token_to_market,       \* token_id -> market_id
    negrisk_events,        \* event_id -> NegRiskEventState
    token_to_event,        \* token_id -> event_id
    seen_opportunities,    \* set of dedup keys
    messages_processed,
    opportunities_found,
    on_opportunity,        \* TRUE when a callback is registered
    \* what the caller of the detector observes of the last call
    lastCall,              \* [op, arg] of the last detector call
    ret,                   \* list returned by the last process_message
    raised,                \* exception that escaped the last call, or "none"
    notified,              \* opportunities handed to on_opportunity by the last call
    tickLog,               \* per processed tick of the last call: candidates, seen set before, result
    returnedSinceClear,    \* keys returned by _process_single_update since the last clear_seen
    returnedTwice,         \* TRUE once a key was returned twice with no clear_seen in between
    returnedBeforeClear,   \* keys returned before the last clear_seen
    returnedTotal,         \* number of opportunities _process_single_update has returned
    \* PaperTradingEngine
    initial_balance,
    balance,
    position_size,         \* in cents
    liquidity_cap_pct,     \* percent of the opportunity's liquidity a position may take
    failure_rate,          \* percent of executions that fail by simulation
    positions,             \* the values of the positions dict, in insertion order
    trades,
    session,               \* TradingSession: end_time, final_balance, total_trades,
                           \* winning_trades, total_pnl
    opportunities_seen,
    opportunities_executed,
    opportunities_skipped,
    opportunities_failed,
    observers,             \* the callbacks that are registered
    \* what the caller of the engine observes of the last call
    lastExec,              \* the last execute_opportunity: argument, draw, result, reason
    callbacks,             \* the callbacks the last call invoked, in order
    origins,               \* per position, the opportunity it came from
    report,                \* what the last get_status or get_summary returned, if
                           \* that was the last call
    inflight,              \* per concurrent caller, how far its execute_opportunity
                           \* has come and the locals it holds
    calls,                 \* the calls the concurrent callers have made, in the
                           \* order they were entered
    \* a price state on its own, and the clock
    clock,                 \* what datetime.now() returns
    subject,               \* [kind, state]: a MarketState or a NegRiskEventState
    stateCall,             \* the last call on subject: op, arguments, result
    \* an order book on its own
    book,                  \* an OrderBook: token_id, bids, asks
    priced,                \* the last get_executable_price on book: side, size, result
    \* WebSocketClient, CLOBClient and BinaryArbitrageStrategy
    feed,                  \* a WebSocketClient, how far its listen() has come, and
                           \* what was observed of its waits and subscriptions
    clob,                  \* a CLOBClient: the slots of its semaphore and the
                           \* requests of the batch in progress
    analysis               \* a BinaryArbitrageStrategy: the market and the prices the
                           \* CLOB serves, and what the last analyze returned

detVars == <<binary_markets, token_to_market, negrisk_events, token_to_event,
             seen_opportunities, messages_processed, opportunities_found, on_opportunity,
             lastCall, ret, raised, notified, tickLog, returnedSinceClear, returnedTwice,
             returnedBeforeClear, returnedTotal>>

engVars == <<initial_balance, balance, position_size, liquidity_cap_pct, failure_rate,
             positions, trades, session, opportunities_seen, opportunities_executed,
             opportunities_skipped, opportunities_failed, observers, lastExec, callbacks,
             origins, report, inflight, calls>>

stateVars == <<clock, subject, stateCall>>

bookVars == <<book, priced>>

apiVars == <<feed, clob, analysis>>

vars == <<detVars, engVars, stateVars, bookVars, apiVars>>

-----------------------------------------------------------------------------
(* Bounds of the model *)

\* execute_opportunity calls per run
MaxSeen == 3

\* process_message calls per run
MaxMessages == 2

\* calls on a price state per run
MaxCalls == 3

\* levels on the ask side of an order book
MaxLevels == 2

\* connects in a row that listen() sees fail
MaxAttempts == 3

\* tokens a feed client has subscribed to
MaxSubscribed == 2

\* slots of the semaphore of a CLOB client
MaxConcurrent == 2

-----------------------------------------------------------------------------
(* Program constants *)

\* one dollar, in cents
Unit == 100

\* RealtimeArbitrageDetector(min_profit_percent=1.0)
MinProfitPercent == 1

\* RealtimeArbitrageDetector(min_liquidity=1000), in dollars
MinLiquidity == 1000

\* NegRiskEventState.check_*: at least 3 tracked entries
MinOutcomes == 3

\* NegRiskEventState.check_underpriced: total_cost <= 0.1 is skipped (cents)
MinTotalCost == 10

\* execute_opportunity: opportunity.get("total_cost", 0.97), in cents
DefaultTotalCost == 97

\* execute_opportunity: opportunity.get("total_value", 1.03), in cents
DefaultTotalValue == 103

\* _calculate_size: liquidity * 0.05, as a percentage
DefaultLiquidityCapPct == 5

\* PaperTradingEngine(initial_balance=10000), in dollars
DefaultInitialBalance == 10000

\* PaperTradingEngine(position_size=100), in dollars
DefaultPositionSize == 100

-----------------------------------------------------------------------------
(* Optional values and finite maps *)

None == <<>>

Some(v) == <<v>>

IsNone(o) == Len(o) = 0

Val(o) == o[1]

EmptyMap == [x \in {} |-> 0]

\* dict[k] = v
Put(d, k, v) == [x \in (DOMAIN d) \cup {k} |-> IF x = k THEN v ELSE d[x]]

RECURSIVE SumOver(_, _)
\* sum(d.values()) restricted to the keys in S
SumOver(d, S) ==
    IF S = {} THEN 0
    ELSE LET k == CHOOSE x \in S : TRUE
         IN  d[k] + SumOver(d, S \ {k})

\* sum(d.values())
SumValues(d) == SumOver(d, DOMAIN d)

-----------------------------------------------------------------------------
(* profit_percent and the dedup key *)

\* f"{x:.1f}" for x = num/den >= 0, den > 0: the number of tenths, rounded
\* to nearest with ties to even
Round1(num, den) ==
    LET q == (10 * num) \div den
        r == (10 * num) % den
    IN  IF 2 * r < den THEN q
        ELSE IF 2 * r > den THEN q + 1
        ELSE IF q % 2 = 0 THEN q ELSE q + 1

\* profit_percent < min_profit, for profit_percent = pp[1] / pp[2]
BelowMinProfit(pp, min_profit) == pp[1] < min_profit * pp[2]

\* An opportunity record.  id is the dict's market_id (binary) or event_id
\* (NegRisk); total is its total_cost (underpriced) or total_value (overpriced).
Opportunity(type, id, total, profit, pp, liquidity, n) ==
    [type |-> type, id |-> id, total |-> total, profit |-> profit,
     profit_percent |-> pp, liquidity |-> liquidity, num_outcomes |-> n]

\* f"{type}_{market_id or event_id}_{profit_percent:.1f}"
OppKey(opp) == <<opp.type, opp.id, Round1(opp.profit_percent[1], opp.profit_percent[2])>>

-----------------------------------------------------------------------------
(* MarketState *)

\* last_update is the reading of the clock (datetime.now()) at construction
MarketState(market_id, liquidity, yes_token_id, no_token_id, yes_ask, no_ask, yes_bid, no_bid, last_update) ==
    [market_id |-> market_id, liquidity |-> liquidity,
     yes_token_id |-> yes_token_id, no_token_id |-> no_token_id,
     yes_ask |-> yes_ask, no_ask |-> no_ask, yes_bid |-> yes_bid, no_bid |-> no_bid,
     last_update |-> last_update]

\* MarketState.update_price at clock reading now; the assignment to
\* last_update follows the if/elif and runs for every token_id
MarketUpdatePrice(s, token_id, bid, ask, now) ==
    IF token_id = s.yes_token_id
    THEN [s EXCEPT !.yes_bid = IF IsNone(bid) THEN @ ELSE bid,
                   !.yes_ask = IF IsNone(ask) THEN @ ELSE ask,
                   !.last_update = now]
    ELSE IF token_id = s.no_token_id
    THEN [s EXCEPT !.no_bid = IF IsNone(bid) THEN @ ELSE bid,
                   !.no_ask = IF IsNone(ask) THEN @ ELSE ask,
                   !.last_update = now]
    ELSE [s EXCEPT !.last_update = now]

\* check_underpriced with total_cost > 1.0 for total_cost >= 1.0
MarketCheckUnderpricedInclusive(s, min_profit) ==
    IF IsNone(s.yes_ask) \/ IsNone(s.no_ask) THEN None
    ELSE IF Val(s.yes_ask) <= 0 \/ Val(s.no_ask) <= 0 THEN None
    ELSE LET total_cost == Val(s.yes_ask) + Val(s.no_ask)
             profit == Unit - total_cost
             pp == <<profit * 100, total_cost>>
         IN  IF total_cost > Unit THEN None
             ELSE IF BelowMinProfit(pp, min_profit) THEN None
             ELSE Some(Opportunity("BINARY_UNDERPRICED", s.market_id, total_cost,
                                   profit, pp, s.liquidity, 0))

\* MarketState.check_underpriced: None or Some(opportunity)
MarketCheckUnderpriced(s, min_profit) ==
    IF IsNone(s.yes_ask) \/ IsNone(s.no_ask) THEN None
    ELSE IF Val(s.yes_ask) <= 0 \/ Val(s.no_ask) <= 0 THEN None
    ELSE LET total_cost == Val(s.yes_ask) + Val(s.no_ask)
             profit == Unit - total_cost
             pp == <<profit * 100, total_cost>>
         IN  IF total_cost >= Unit THEN None
             ELSE IF BelowMinProfit(pp, min_profit) THEN None
             ELSE Some(Opportunity("BINARY_UNDERPRICED", s.market_id, total_cost,
                                   profit, pp, s.liquidity, 0))

\* check_overpriced with the percentage taken on total_value
MarketCheckOverpricedOnValue(s, min_profit) ==
    IF IsNone(s.yes_bid) \/ IsNone(s.no_bid) THEN None
    ELSE IF Val(s.yes_bid) <= 0 \/ Val(s.no_bid) <= 0 THEN None
    ELSE LET total_value == Val(s.yes_bid) + Val(s.no_bid)
             profit == total_value - Unit
             pp == <<profit * 100, total_value>>
         IN  IF total_value <= Unit THEN None
             ELSE IF BelowMinProfit(pp, min_profit) THEN None
             ELSE Some(Opportunity("BINARY_OVERPRICED", s.market_id, total_value,
                                   profit, pp, s.liquidity, 0))

\* MarketState.check_overpriced: None or Some(opportunity)
MarketCheckOverpriced(s, min_profit) ==
    IF IsNone(s.yes_bid) \/ IsNone(s.no_bid) THEN None
    ELSE IF Val(s.yes_bid) <= 0 \/ Val(s.no_bid) <= 0 THEN None
    ELSE LET total_value == Val(s.yes_bid) + Val(s.no_bid)
             profit == total_value - Unit
             pp == <<profit * 100, Unit>>
         IN  IF total_value <= Unit THEN None
             ELSE IF BelowMinProfit(pp, min_profit) THEN None
             ELSE Some(Opportunity("BINARY_OVERPRICED", s.market_id, total_value,
                                   profit, pp, s.liquidity, 0))

-----------------------------------------------------------------------------
(* NegRiskEventState *)

\* markets: market_id -> yes_token_id; yes_prices, yes_bids: yes_token_id -> price
NegRiskEventState(event_id, total_liquidity, last_update) ==
    [event_id |-> event_id, total_liquidity |-> total_liquidity,
     markets |-> EmptyMap, yes_prices |-> EmptyMap, yes_bids |-> EmptyMap,
     last_update |-> last_update]

\* NegRiskEventState.update_price at clock reading now
EventUpdatePrice(s, token_id, bid, ask, now) ==
    IF token_id \in DOMAIN s.yes_prices
       \/ \E m \in DOMAIN s.markets : token_id = s.markets[m]
    THEN [s EXCEPT !.yes_prices = IF IsNone(ask) THEN @ ELSE Put(@, token_id, Val(ask)),
                   !.yes_bids = IF IsNone(bid) THEN @ ELSE Put(@, token_id, Val(bid)),
                   !.last_update = now]
    ELSE s

\* check_underpriced that is content with two tracked asks
EventCheckUnderpricedPairs(s, min_profit) ==
    IF Cardinality(DOMAIN s.yes_prices) < MinOutcomes - 1 THEN None
    ELSE LET total_cost == SumValues(s.yes_prices)
             profit == Unit - total_cost
             pp == <<profit * 100, total_cost>>
         IN  IF total_cost >= Unit THEN None
             ELSE IF total_cost <= MinTotalCost THEN None
             ELSE IF BelowMinProfit(pp, min_profit) THEN None
             ELSE Some(Opportunity("NEGRISK_UNDERPRICED", s.event_id, total_cost,
                                   profit, pp, s.total_liquidity,
                                   Cardinality(DOMAIN s.yes_prices)))

\* NegRiskEventState.check_underpriced: None or Some(opportunity)
EventCheckUnderpriced(s, min_profit) ==
    IF Cardinality(DOMAIN s.yes_prices) < MinOutcomes THEN None
    ELSE LET total_cost == SumValues(s.yes_prices)
             profit == Unit - total_cost
             pp == <<profit * 100, total_cost>>
         IN  IF total_cost >= Unit THEN None
             ELSE IF total_cost <= MinTotalCost THEN None
             ELSE IF BelowMinProfit(pp, min_profit) THEN None
             ELSE Some(Opportunity("NEGRISK_UNDERPRICED", s.event_id, total_cost,
                                   profit, pp, s.total_liquidity,
                                   Cardinality(DOMAIN s.yes_prices)))

\* check_overpriced with total_value < 1.0 for total_value <= 1.0
EventCheckOverpricedInclusive(s, min_profit) ==
    IF Cardinality(DOMAIN s.yes_bids) < MinOutcomes THEN None
    ELSE LET total_value == SumValues(s.yes_bids)
             profit == total_value - Unit
             pp == <<profit * 100, Unit>>
         IN  IF total_value < Unit THEN None
             ELSE IF BelowMinProfit(pp, min_profit) THEN None
             ELSE Some(Opportunity("NEGRISK_OVERPRICED", s.event_id, total_value,
                                   profit, pp, s.total_liquidity,
                                   Cardinality(DOMAIN s.yes_bids)))

\* NegRiskEventState.check_overpriced: None or Some(opportunity)
EventCheckOverpriced(s, min_profit) ==
    IF Cardinality(DOMAIN s.yes_bids) < MinOutcomes THEN None
    ELSE LET total_value == SumValues(s.yes_bids)
             profit == total_value - Unit
             pp == <<profit * 100, Unit>>
         IN  IF total_value <= Unit THEN None
             ELSE IF BelowMinProfit(pp, min_profit) THEN None
             ELSE Some(Opportunity("NEGRISK_OVERPRICED", s.event_id, total_value,
                                   profit, pp, s.total_liquidity,
                                   Cardinality(DOMAIN s.yes_bids)))

-----------------------------------------------------------------------------
(* Ticks *)

(***************************************************************************)
(* A tick is what json.loads delivers.  isDict is FALSE for anything that  *)
(* is not a mapping (None, a string, a number).  Of a mapping the model    *)
(* keeps the fields the detector reads, each with a kind k and a value v:  *)
(*   asset_id   "absent" | "empty" (None, "", 0) | "str" (v: the token)    *)
(*              | "unhashable" (a list or a mapping)                       *)
(*   price, best_bid, best_ask                                             *)
(*              "absent" | "num" (a number or numeric string, v cents)     *)
(*              | "bad" (None, a non-numeric string, a list)               *)
(*   bids, asks "absent" | "empty" ([] or another falsy value)             *)
(*              | "notlist" (a truthy value that is not a list)            *)
(*              | "num" (first level a mapping, price v cents)             *)
(*              | "bad" (first level a mapping, non-numeric price)         *)
(*              | "noprice" (first level a mapping without "price")        *)
(*              | "elemnotdict" (first level not a mapping)                *)
(***************************************************************************)
F(k, v) == [k |-> k, v |-> v]

Absent == F("absent", 0)

Num(p) == F("num", p)

Bad == F("bad", 0)

\* an asset_id that is not a token: absent, falsy, or not hashable
NoAsset(k) == F(k, "")

NonDict ==
    [isDict |-> FALSE, asset_id |-> NoAsset("absent"), price |-> Absent,
     best_bid |-> Absent, best_ask |-> Absent, bids |-> Absent, asks |-> Absent]

Tick(asset, price, best_bid, best_ask, bids, asks) ==
    [isDict |-> TRUE, asset_id |-> asset, price |-> price,
     best_bid |-> best_bid, best_ask |-> best_ask, bids |-> bids, asks |-> asks]

\* float(x) under try/except (ValueError, TypeError): the old value is kept
\* when the conversion fails
FloatOr(old, f) == IF f.k = "num" THEN Some(f.v) ELSE old

\* the "bids"/"asks" block of _extract_prices: the first level's price;
\* a missing "price" reads as 0
DepthOr(old, f) ==
    CASE f.k = "num" -> Some(f.v)
      [] f.k = "noprice" -> Some(0)
      [] OTHER -> old

\* RealtimeArbitrageDetector._extract_prices: the (bid, ask) pair, or the
\* AttributeError of calling .get on a level that is not a mapping
ExtractPrices(item) ==
    LET ask1 == IF item.price.k # "absent" THEN FloatOr(None, item.price) ELSE None
        bid1 == IF item.best_bid.k # "absent" THEN FloatOr(None, item.best_bid) ELSE None
        ask2 == IF item.best_ask.k # "absent" THEN FloatOr(ask1, item.best_ask) ELSE ask1
        bid2 == DepthOr(bid1, item.bids)
        ask3 == DepthOr(ask2, item.asks)
    IN  IF item.bids.k = "elemnotdict" \/ item.asks.k = "elemnotdict"
        THEN [bid |-> None, ask |-> None, raises |-> "AttributeError"]
        ELSE [bid |-> bid2, ask |-> ask3, raises |-> "none"]

-----------------------------------------------------------------------------
(* RealtimeArbitrageDetector *)

\* the detector's fields, as the pure steps below read and write them;
\* notified collects the on_opportunity invocations; now is the clock
Detector ==
    [binary_markets |-> binary_markets, token_to_market |-> token_to_market,
     negrisk_events |-> negrisk_events, token_to_event |-> token_to_event,
     seen_opportunities |-> seen_opportunities,
     opportunities_found |-> opportunities_found,
     on_opportunity |-> on_opportunity, notified |-> <<>>,
     now |-> clock]

\* Some(x) -> <<x>>, None -> <<>>: "if opp: opportunities.append(opp)"
AppendIf(list, o) == IF IsNone(o) THEN list ELSE Append(list, Val(o))

\* what _process_single_update hands back: the detector after it, its return
\* value out, the opportunities the state checks produced, and the exception
\* that escaped ("none" if none)
Outcome(d, out, cands, raises) ==
    [d |-> d, out |-> out, cands |-> cands, raises |-> raises]

\* the body of "if key not in self.seen_opportunities": o with opp emitted
Emit(o, opp, key) ==
    [o EXCEPT !.d.seen_opportunities = @ \cup {key},
              !.d.opportunities_found = @ + 1,
              !.d.notified = IF o.d.on_opportunity THEN Append(@, opp) ELSE @,
              !.out = Append(@, opp)]

RECURSIVE FilterDuplicates(_, _)
\* the "Filter duplicates and trigger callbacks" loop of
\* _process_single_update over o.cands[i..]
FilterDuplicates(o, i) ==
    IF i > Len(o.cands) THEN o
    ELSE FilterDuplicates(IF OppKey(o.cands[i]) \notin o.d.seen_opportunities
                          THEN Emit(o, o.cands[i], OppKey(o.cands[i]))
                          ELSE o,
                          i + 1)

\* the checks of a binary market with the overpriced check skipped once the
\* underpriced check has found an opportunity
CheckMarketExclusive(r, state) ==
    [d |-> [r.d EXCEPT !.binary_markets[state.market_id] = state],
     opps |-> IF IsNone(MarketCheckUnderpriced(state, MinProfitPercent))
              THEN AppendIf(r.opps, MarketCheckOverpriced(state, MinProfitPercent))
              ELSE AppendIf(r.opps, MarketCheckUnderpriced(state, MinProfitPercent))]

\* the two checks of a binary market after its update; r carries the
\* detector and the opportunities list built so far
CheckMarket(r, state) ==
    [d |-> [r.d EXCEPT !.binary_markets[state.market_id] = state],
     opps |-> AppendIf(AppendIf(r.opps, MarketCheckUnderpriced(state, MinProfitPercent)),
                       MarketCheckOverpriced(state, MinProfitPercent))]

\* the binary-market block of _process_single_update
RouteBinary(r, token_id, bid, ask) ==
    IF token_id \in DOMAIN r.d.token_to_market
       /\ r.d.token_to_market[token_id] \in DOMAIN r.d.binary_markets
    THEN CheckMarket(r, MarketUpdatePrice(r.d.binary_markets[r.d.token_to_market[token_id]],
                                          token_id, bid, ask, r.d.now))
    ELSE r

\* the two checks of a NegRisk event after its update
CheckEvent(r, state) ==
    [d |-> [r.d EXCEPT !.negrisk_events[state.event_id] = state],
     opps |-> AppendIf(AppendIf(r.opps, EventCheckUnderpriced(state, MinProfitPercent)),
                       EventCheckOverpriced(state, MinProfitPercent))]

\* the NegRisk block of _process_single_update
RouteNegRisk(r, token_id, bid, ask) ==
    IF token_id \in DOMAIN r.d.token_to_event
       /\ r.d.token_to_event[token_id] \in DOMAIN r.d.negrisk_events
    THEN CheckEvent(r, EventUpdatePrice(r.d.negrisk_events[r.d.token_to_event[token_id]],
                                        token_id, bid, ask, r.d.now))
    ELSE r

\* the dedup loop over the opportunities r.opps of both blocks
Deduplicate(r) == FilterDuplicates(Outcome(r.d, <<>>, r.opps, "none"), 1)

\* _process_single_update from "bid, ask = self._extract_prices(item)" on;
\* "token_id in self.token_to_market" hashes the asset id
UpdatePrices(d, item, px) ==
    IF px.raises # "none" THEN Outcome(d, <<>>, <<>>, px.raises)
    ELSE IF item.asset_id.k = "unhashable" THEN Outcome(d, <<>>, <<>>, "TypeError")
    ELSE Deduplicate(RouteNegRisk(RouteBinary([d |-> d, opps |-> <<>>],
                                              item.asset_id.v, px.bid, px.ask),
                                  item.asset_id.v, px.bid, px.ask))

\* RealtimeArbitrageDetector._process_single_update
ProcessSingleUpdate(d, item) ==
    IF ~item.isDict THEN Outcome(d, <<>>, <<>>, "none")
    ELSE IF item.asset_id.k \in {"absent", "empty"} THEN Outcome(d, <<>>, <<>>, "none")
    ELSE UpdatePrices(d, item, ExtractPrices(item))

\* one entry of tickLog: the tick, the seen set before it, and its outcome
LogEntry(item, seenBefore, o) ==
    [item |-> item, seenBefore |-> seenBefore, cands |-> o.cands, out |-> o.out,
     seenAfter |-> o.d.seen_opportunities, raises |-> o.raises]

\* "opportunities.extend(self._process_single_update(item))": acc after item
Extend(acc, item, o) ==
    [d |-> o.d, opportunities |-> acc.opportunities \o o.out, raises |-> o.raises,
     log |-> Append(acc.log, LogEntry(item, acc.d.seen_opportunities, o))]

RECURSIVE ProcessItems(_, _, _)
\* the loop of process_message over items[i..]: an exception ends it
ProcessItems(acc, items, i) ==
    IF i > Len(items) \/ acc.raises # "none" THEN acc
    ELSE ProcessItems(Extend(acc, items[i], ProcessSingleUpdate(acc.d, items[i])),
                      items, i + 1)

\* keys of a list of opportunities
Keys(opps) == {OppKey(opps[i]) : i \in 1..Len(opps)}

RECURSIVE ReturnedTwice(_, _, _)
\* whether a tick result of log[i..] returns a key that `since` or an earlier
\* entry (or the same entry) already returned
ReturnedTwice(since, log, i) ==
    IF i > Len(log) THEN FALSE
    ELSE LET out == log[i].out
         IN  \/ \E j \in 1..Len(out) : OppKey(out[j]) \in since
             \/ \E j, k \in 1..Len(out) : j < k /\ OppKey(out[j]) = OppKey(out[k])
             \/ ReturnedTwice(since \cup Keys(out), log, i + 1)

RECURSIVE LogKeys(_, _)
\* all keys the tick results of log return
LogKeys(log, i) == IF i > Len(log) THEN {} ELSE Keys(log[i].out) \cup LogKeys(log, i + 1)

RECURSIVE LogCount(_, _)
\* how many opportunities the tick results of log return
LogCount(log, i) == IF i > Len(log) THEN 0 ELSE Len(log[i].out) + LogCount(log, i + 1)

\* a message is one tick or a list of ticks
Single(item) == [isList |-> FALSE, items |-> <<item>>]

Batch(items) == [isList |-> TRUE, items |-> items]

Call(op, arg) == [op |-> op, arg |-> arg]

\* RealtimeArbitrageDetector.process_message; r is what the loop leaves
ProcessMessage(message) ==
    /\ messages_processed < MaxMessages
    /\ \E r \in {ProcessItems([d |-> Detector, opportunities |-> <<>>,
                               raises |-> "none", log |-> <<>>], message.items, 1)} :
           /\ messages_processed' = messages_processed + 1
           /\ binary_markets' = r.d.binary_markets
           /\ negrisk_events' = r.d.negrisk_events
           /\ seen_opportunities' = r.d.seen_opportunities
           /\ opportunities_found' = r.d.opportunities_found
           /\ notified' = r.d.notified
           /\ ret' = IF r.raises = "none" THEN r.opportunities ELSE <<>>
           /\ raised' = r.raises
           /\ tickLog' = r.log
           /\ returnedTwice' = (returnedTwice \/ ReturnedTwice(returnedSinceClear, r.log, 1))
           /\ returnedSinceClear' = returnedSinceClear \cup LogKeys(r.log, 1)
           /\ returnedTotal' = returnedTotal + LogCount(r.log, 1)
    /\ lastCall' = Call("process_message", message)
    /\ UNCHANGED <<token_to_market, token_to_event, on_opportunity, returnedBeforeClear>>

\* clear_seen that leaves the seen set as it is
ClearSeenKeepsSeen ==
    /\ returnedSinceClear' = {}
    /\ returnedBeforeClear' = returnedBeforeClear \cup returnedSinceClear
    /\ lastCall' = Call("clear_seen", <<>>)
    /\ ret' = <<>>
    /\ raised' = "none"
    /\ notified' = <<>>
    /\ tickLog' = <<>>
    /\ UNCHANGED <<binary_markets, token_to_market, negrisk_events, token_to_event,
                   seen_opportunities, messages_processed, opportunities_found,
                   on_opportunity, returnedTwice, returnedTotal>>

\* RealtimeArbitrageDetector.clear_seen
ClearSeen ==
    /\ seen_opportunities' = {}
    /\ returnedSinceClear' = {}
    /\ returnedBeforeClear' = returnedBeforeClear \cup returnedSinceClear
    /\ lastCall' = Call("clear_seen", <<>>)
    /\ ret' = <<>>
    /\ raised' = "none"
    /\ notified' = <<>>
    /\ tickLog' = <<>>
    /\ UNCHANGED <<binary_markets, token_to_market, negrisk_events, token_to_event,
                   messages_processed, opportunities_found, on_opportunity,
                   returnedTwice, returnedTotal>>

\* the arguments of register_binary_market the detector uses
BinaryListing(market_id, liquidity, yes_token_id, no_token_id, yes_ask, no_ask, yes_bid, no_bid) ==
    [market_id |-> market_id, liquidity |-> liquidity,
     yes_token_id |-> yes_token_id, no_token_id |-> no_token_id,
     yes_ask |-> yes_ask, no_ask |-> no_ask, yes_bid |-> yes_bid, no_bid |-> no_bid]

\* MarketState(market_id=market_id, ...) of register_binary_market
ListedMarket(l, now) ==
    MarketState(l.market_id, l.liquidity, l.yes_token_id, l.no_token_id,
                l.yes_ask, l.no_ask, l.yes_bid, l.no_bid, now)

\* register_binary_market that also rejects a liquidity equal to the minimum
RegisterBinaryMarketStrict(l) ==
    /\ lastCall' = Call("register_binary_market", l)
    /\ IF l.liquidity <= MinLiquidity
       THEN UNCHANGED <<binary_markets, token_to_market>>
       ELSE /\ binary_markets' = Put(binary_markets, l.market_id,
                                     ListedMarket(l, clock))
            /\ token_to_market' = Put(Put(token_to_market, l.yes_token_id, l.market_id),
                                      l.no_token_id, l.market_id)
    /\ ret' = <<>>
    /\ raised' = "none"
    /\ notified' = <<>>
    /\ tickLog' = <<>>
    /\ UNCHANGED <<negrisk_events, token_to_event, seen_opportunities, messages_processed,
                   opportunities_found, on_opportunity, returnedSinceClear, returnedTwice,
                   returnedBeforeClear, returnedTotal>>

\* RealtimeArbitrageDetector.register_binary_market
RegisterBinaryMarket(l) ==
    /\ lastCall' = Call("register_binary_market", l)
    /\ IF l.liquidity < MinLiquidity
       THEN UNCHANGED <<binary_markets, token_to_market>>
       ELSE /\ binary_markets' = Put(binary_markets, l.market_id,
                                     ListedMarket(l, clock))
            /\ token_to_market' = Put(Put(token_to_market, l.yes_token_id, l.market_id),
                                      l.no_token_id, l.market_id)
    /\ ret' = <<>>
    /\ raised' = "none"
    /\ notified' = <<>>
    /\ tickLog' = <<>>
    /\ UNCHANGED <<negrisk_events, token_to_event, seen_opportunities, messages_processed,
                   opportunities_found, on_opportunity, returnedSinceClear, returnedTwice,
                   returnedBeforeClear, returnedTotal>>

\* one element of register_negrisk_event's markets list
OutcomeListing(market_id, yes_token_id, yes_ask, yes_bid) ==
    [market_id |-> market_id, yes_token_id |-> yes_token_id,
     yes_ask |-> yes_ask, yes_bid |-> yes_bid]

\* the arguments of register_negrisk_event the detector uses
EventListing(event_id, total_liquidity, markets) ==
    [event_id |-> event_id, total_liquidity |-> total_liquidity, markets |-> markets]

RECURSIVE AddOutcomes(_, _, _)
\* the "for m in markets" loop of register_negrisk_event over markets[i..]:
\* the event state and the token index after it
AddOutcomes(reg, markets, i) ==
    IF i > Len(markets) THEN reg
    ELSE LET m == markets[i]
             s == reg.state
             s1 == [s EXCEPT !.markets = Put(@, m.market_id, m.yes_token_id),
                             !.yes_prices = IF IsNone(m.yes_ask) THEN @
                                            ELSE Put(@, m.yes_token_id, Val(m.yes_ask)),
                             !.yes_bids = IF IsNone(m.yes_bid) THEN @
                                          ELSE Put(@, m.yes_token_id, Val(m.yes_bid))]
         IN  AddOutcomes([state |-> s1,
                          token_to_event |-> Put(reg.token_to_event, m.yes_token_id,
                                                 s.event_id)],
                         markets, i + 1)

\* RealtimeArbitrageDetector.register_negrisk_event
RegisterNegriskEvent(l) ==
    /\ lastCall' = Call("register_negrisk_event", l)
    /\ IF l.total_liquidity < MinLiquidity
       THEN UNCHANGED <<negrisk_events, token_to_event>>
       ELSE LET reg == AddOutcomes([state |-> NegRiskEventState(l.event_id, l.total_liquidity,
                                                               clock),
                                    token_to_event |-> token_to_event], l.markets, 1)
            IN  /\ negrisk_events' = Put(negrisk_events, l.event_id, reg.state)
                /\ token_to_event' = reg.token_to_event
    /\ ret' = <<>>
    /\ raised' = "none"
    /\ notified' = <<>>
    /\ tickLog' = <<>>
    /\ UNCHANGED <<binary_markets, token_to_market, seen_opportunities, messages_processed,
                   opportunities_found, on_opportunity, returnedSinceClear, returnedTwice,
                   returnedBeforeClear, returnedTotal>>

\* detector.on_opportunity = callback, as the callers do after construction
SetOnOpportunity ==
    /\ ~on_opportunity
    /\ on_opportunity' = TRUE
    /\ lastCall' = Call("set_on_opportunity", <<>>)
    /\ ret' = <<>>
    /\ raised' = "none"
    /\ notified' = <<>>
    /\ tickLog' = <<>>
    /\ UNCHANGED <<binary_markets, token_to_market, negrisk_events, token_to_event,
                   seen_opportunities, messages_processed, opportunities_found,
                   returnedSinceClear, returnedTwice, returnedBeforeClear, returnedTotal>>

-----------------------------------------------------------------------------
(* PaperTradingEngine *)

(***************************************************************************)
(* The engine reads an opportunity dict through .get with defaults; the    *)
(* argument keeps each key as an optional value.  liquidity is in dollars, *)
(* total_cost and total_value in cents.  Sizes are in cents and money in   *)
(* 1/100 of a cent: Fine(d) is d dollars of money.                         *)
(***************************************************************************)
EngineOpportunity(type, id, total_cost, total_value, profit_percent, liquidity) ==
    [type |-> type, id |-> id, total_cost |-> total_cost, total_value |-> total_value,
     profit_percent |-> profit_percent, liquidity |-> liquidity]

Fine(dollars) == dollars * Unit * Unit

\* dict.get(key, default)
Get(o, default) == IF IsNone(o) THEN default ELSE Val(o)

Min(a, b) == IF a <= b THEN a ELSE b

\* "UNDERPRICED" in arb_type, for the type tags of the inputs
HasUnderpriced(arb_type) == arb_type \in {"BINARY_UNDERPRICED", "NEGRISK_UNDERPRICED"}

\* the second branch as a plain "else"
HasOverpricedElse(arb_type) == ~HasUnderpriced(arb_type)

\* "OVERPRICED" in arb_type, for the type tags of the inputs
HasOverpriced(arb_type) == arb_type \in {"BINARY_OVERPRICED", "NEGRISK_OVERPRICED"}

\* the fraction of the liquidity a position may take, in percent: the 0.05
\* of _calculate_size, made a constructor argument (liquidity_cap_pct) that
\* the presets and the tests set
LiquidityCapPct == liquidity_cap_pct

\* _calculate_size without the liquidity cap
CalculateSizeUncapped(opp) ==
    IF Get(opp.liquidity, 0) <= 0 THEN 0 ELSE position_size

\* PaperTradingEngine._calculate_size, in cents
CalculateSize(opp) ==
    LET liquidity == Get(opp.liquidity, 0)
    IN  IF liquidity <= 0 THEN 0
        ELSE Min(position_size, liquidity * LiquidityCapPct)

\* cost of $1.00 per unit in both branches
CostAtPar(opp, size) == size * Unit

\* cost of the branch on the arbitrage type
Cost(opp, size) ==
    IF HasUnderpriced(opp.type) THEN size * Get(opp.total_cost, DefaultTotalCost)
    ELSE size * Unit

\* expected_return that pays $1.00 per unit in both branches
ExpectedReturnFlat(opp, size) == size * Unit

\* expected_return of the branch on the arbitrage type
ExpectedReturn(opp, size) ==
    IF HasUnderpriced(opp.type) THEN size * Unit
    ELSE size * Get(opp.total_value, DefaultTotalValue)

\* Position(...) without the call of close
PositionLeftOpen(id, opp, size, cost, profit) ==
    [id |-> id, market_id |-> opp.id, arb_type |-> opp.type, entry_cost |-> cost,
     size |-> size, expected_profit |-> profit,
     profit_percent |-> Get(opp.profit_percent, <<profit * 100, cost>>),
     status |-> "open", actual_profit |-> None]

\* Position(...) followed by position.close(actual_profit=profit)
ClosedPosition(id, opp, size, cost, profit) ==
    [id |-> id, market_id |-> opp.id, arb_type |-> opp.type, entry_cost |-> cost,
     size |-> size, expected_profit |-> profit,
     profit_percent |-> Get(opp.profit_percent, <<profit * 100, cost>>),
     status |-> "closed", actual_profit |-> Some(profit)]

\* Trade(...)
TradeRecord(id, opp, size, cost) ==
    [id |-> id, market_id |-> opp.id, arb_type |-> opp.type, side |-> "ARB",
     price |-> IF HasUnderpriced(opp.type) THEN Get(opp.total_cost, DefaultTotalCost)
               ELSE Unit,
     size |-> size, total |-> cost]

\* an invocation of a callback and the records the engine holds at that moment
Notice(name, reason, sees) == [name |-> name, reason |-> reason, sees |-> sees]

\* the engine's records as they stand
Records(b, p, t) == [balance |-> b, positions |-> p, trades |-> t]

\* a callback invoked at the end of the call
CallbackRecord(name, reason) == Notice(name, reason, Records(balance', positions', trades'))

\* the callbacks among names that are registered, in order
Invoked(names) == SelectSeq(names, LAMBDA c : c.name \in observers)

LastExec(opp, draw, result, why) ==
    [opp |-> opp, draw |-> draw, result |-> result, why |-> why]

\* "self.opportunities_skipped += 1; return False"
Skipped(opp, draw, why) ==
    /\ opportunities_skipped' = opportunities_skipped + 1
    /\ lastExec' = LastExec(opp, draw, "false", why)
    /\ callbacks' = <<>>
    /\ UNCHANGED <<balance, positions, trades, session, opportunities_executed,
                   opportunities_failed, origins>>

\* the simulated-failure gate: the draw fails with probability failure_rate
SimulatedFailure(draw) ==
    /\ failure_rate > 0
    /\ failure_rate = 100 \/ draw

\* what the gate does on a simulated failure.  test_failure_rate_causes_skipped_trades
\* finds both opportunities_failed and opportunities_skipped at 1 after one
\* failed execution.
ExecutionFailed(opp, draw) ==
    /\ opportunities_failed' = opportunities_failed + 1
    /\ opportunities_skipped' = opportunities_skipped + 1
    /\ lastExec' = LastExec(opp, draw, "false", "execution_failed")
    /\ UNCHANGED <<balance, positions, trades, session, opportunities_executed, origins>>
    /\ callbacks' = Invoked(<<CallbackRecord("on_failure", "execution_failed")>>)

\* (profit / cost) * 100, the default of opportunity.get("profit_percent", ...),
\* is evaluated whether or not the key is present: with cost = 0 the call
\* ends in a ZeroDivisionError after "self.balance -= cost"
DivisionByZero(opp, draw, cost) ==
    /\ balance' = balance - cost
    /\ lastExec' = LastExec(opp, draw, "raised", "ZeroDivisionError")
    /\ callbacks' = <<>>
    /\ UNCHANGED <<positions, trades, session, opportunities_executed,
                   opportunities_skipped, opportunities_failed, origins>>

\* the tail of execute_opportunity with the callbacks invoked ahead of the
\* balance, position and trade updates
CommitNotifiesFirst(opp, draw, size, cost, expected_return) ==
    LET profit == expected_return - cost
        id == Len(positions) + 1
    IN  /\ balance' = (balance - cost) + expected_return
        /\ positions' = Append(positions, ClosedPosition(id, opp, size, cost, profit))
        /\ origins' = Append(origins, opp)
        /\ opportunities_executed' = opportunities_executed + 1
        /\ trades' = Append(trades, TradeRecord(Len(trades) + 1, opp, size, cost))
        /\ session' = [session EXCEPT !.total_trades = @ + 1,
                                      !.winning_trades = IF profit > 0 THEN @ + 1 ELSE @,
                                      !.total_pnl = @ + profit]
        /\ callbacks' = Invoked(<<Notice("on_trade", "", Records(balance, positions, trades)),
                                  Notice("on_position_open", "",
                                         Records(balance, positions, trades)),
                                  Notice("on_position_close", "",
                                         Records(balance, positions, trades))>>)
        /\ lastExec' = LastExec(opp, draw, "true", "executed")
        /\ UNCHANGED <<opportunities_skipped, opportunities_failed>>

\* the tail of execute_opportunity with the session's total_pnl taking gains
\* only
CommitTalliesGainsOnly(opp, draw, size, cost, expected_return) ==
    LET profit == expected_return - cost
        id == Len(positions) + 1
    IN  /\ balance' = (balance - cost) + expected_return
        /\ positions' = Append(positions, ClosedPosition(id, opp, size, cost, profit))
        /\ origins' = Append(origins, opp)
        /\ opportunities_executed' = opportunities_executed + 1
        /\ trades' = Append(trades, TradeRecord(Len(trades) + 1, opp, size, cost))
        /\ session' = [session EXCEPT !.total_trades = @ + 1,
                                      !.winning_trades = IF profit > 0 THEN @ + 1 ELSE @,
                                      !.total_pnl = IF profit > 0 THEN @ + profit ELSE @]
        /\ callbacks' = Invoked(<<CallbackRecord("on_trade", ""),
                                  CallbackRecord("on_position_open", ""),
                                  CallbackRecord("on_position_close", "")>>)
        /\ lastExec' = LastExec(opp, draw, "true", "executed")
        /\ UNCHANGED <<opportunities_skipped, opportunities_failed>>

\* the tail of execute_opportunity with every trade counted as a winning one
CommitCountsEveryWin(opp, draw, size, cost, expected_return) ==
    LET profit == expected_return - cost
        id == Len(positions) + 1
    IN  /\ balance' = (balance - cost) + expected_return
        /\ positions' = Append(positions, ClosedPosition(id, opp, size, cost, profit))
        /\ origins' = Append(origins, opp)
        /\ opportunities_executed' = opportunities_executed + 1
        /\ trades' = Append(trades, TradeRecord(Len(trades) + 1, opp, size, cost))
        /\ session' = [session EXCEPT !.total_trades = @ + 1,
                                      !.winning_trades = @ + 1,
                                      !.total_pnl = @ + profit]
        /\ callbacks' = Invoked(<<CallbackRecord("on_trade", ""),
                                  CallbackRecord("on_position_open", ""),
                                  CallbackRecord("on_position_close", "")>>)
        /\ lastExec' = LastExec(opp, draw, "true", "executed")
        /\ UNCHANGED <<opportunities_skipped, opportunities_failed>>

\* "Execute trade" to "return True" of execute_opportunity
Commit(opp, draw, size, cost, expected_return) ==
    LET profit == expected_return - cost
        id == Len(positions) + 1
    IN  /\ balance' = (balance - cost) + expected_return
        /\ positions' = Append(positions, ClosedPosition(id, opp, size, cost, profit))
        /\ origins' = Append(origins, opp)
        /\ opportunities_executed' = opportunities_executed + 1
        /\ trades' = Append(trades, TradeRecord(Len(trades) + 1, opp, size, cost))
        /\ session' = [session EXCEPT !.total_trades = @ + 1,
                                      !.winning_trades = IF profit > 0 THEN @ + 1 ELSE @,
                                      !.total_pnl = @ + profit]
        /\ callbacks' = Invoked(<<CallbackRecord("on_trade", ""),
                                  CallbackRecord("on_position_open", ""),
                                  CallbackRecord("on_position_close", "")>>)
        /\ lastExec' = LastExec(opp, draw, "true", "executed")
        /\ UNCHANGED <<opportunities_skipped, opportunities_failed>>

\* the balance check that lets every cost pass
CheckBalanceLenient(opp, draw, size) ==
    LET cost == Cost(opp, size)
        expected_return == ExpectedReturn(opp, size)
    IN  IF cost = 0 THEN DivisionByZero(opp, draw, cost)
        ELSE Commit(opp, draw, size, cost, expected_return)

\* the balance check and what follows it
CheckBalance(opp, draw, size) ==
    LET cost == Cost(opp, size)
        expected_return == ExpectedReturn(opp, size)
    IN  IF cost > balance THEN Skipped(opp, draw, "balance")
        ELSE IF cost = 0 THEN DivisionByZero(opp, draw, cost)
        ELSE Commit(opp, draw, size, cost, expected_return)

\* execute_opportunity with the balance check ahead of the failure gate
ExecuteOpportunityBalanceFirst(opp, draw) ==
    /\ opportunities_seen < MaxSeen
    /\ opportunities_seen' = opportunities_seen + 1
    /\ LET size == CalculateSize(opp)
       IN  IF size <= 0 THEN Skipped(opp, draw, "size")
           ELSE IF ~HasUnderpriced(opp.type) /\ ~HasOverpriced(opp.type)
           THEN Skipped(opp, draw, "type")
           ELSE IF Cost(opp, size) > balance THEN Skipped(opp, draw, "balance")
           ELSE IF SimulatedFailure(draw) THEN ExecutionFailed(opp, draw)
           ELSE CheckBalance(opp, draw, size)
    /\ report' = None
    /\ UNCHANGED <<initial_balance, position_size, liquidity_cap_pct, failure_rate, observers,
                   inflight, calls>>

\* PaperTradingEngine.execute_opportunity
ExecuteOpportunity(opp, draw) ==
    /\ opportunities_seen < MaxSeen
    /\ opportunities_seen' = opportunities_seen + 1
    /\ LET size == CalculateSize(opp)
       IN  IF size <= 0 THEN Skipped(opp, draw, "size")
           ELSE IF ~HasUnderpriced(opp.type) /\ ~HasOverpriced(opp.type)
           THEN Skipped(opp, draw, "type")
           ELSE IF SimulatedFailure(draw) THEN ExecutionFailed(opp, draw)
           ELSE CheckBalance(opp, draw, size)
    /\ report' = None
    /\ UNCHANGED <<initial_balance, position_size, liquidity_cap_pct, failure_rate, observers,
                   inflight, calls>>

RECURSIVE SumProfits(_, _, _)
\* sum over positions[i..] with the given status of actual_profit or 0
\* (closed) or of expected_profit (open)
SumProfits(ps, status, i) ==
    IF i > Len(ps) THEN 0
    ELSE (IF ps[i].status # status THEN 0
          ELSE IF status = "open" THEN ps[i].expected_profit
          ELSE Get(ps[i].actual_profit, 0))
         + SumProfits(ps, status, i + 1)

\* PaperTradingEngine.realized_pnl
RealizedPnl == SumProfits(positions, "closed", 1)

\* PaperTradingEngine.unrealized_pnl
UnrealizedPnl == SumProfits(positions, "open", 1)

\* PaperTradingEngine.total_pnl
TotalPnl == RealizedPnl + UnrealizedPnl

\* the positions with the given status
WithStatus(status) == SelectSeq(positions, LAMBDA p : p.status = status)

\* PaperTradingEngine.win_rate: 0, or the fraction winners / closed
WinRate ==
    IF Len(WithStatus("closed")) = 0 THEN <<0, 1>>
    ELSE <<Len(SelectSeq(WithStatus("closed"), LAMBDA p : Get(p.actual_profit, 0) > 0)),
           Len(WithStatus("closed"))>>

\* PaperTradingEngine.return_percent, a fraction; the division has no guard
ReturnPercent == <<TotalPnl * 100, initial_balance>>

RECURSIVE BalanceAfter(_)
\* the balance trajectory: the balance after the first n trades
BalanceAfter(n) ==
    IF n = 0 THEN initial_balance
    ELSE BalanceAfter(n - 1) + Get(positions[n].actual_profit, 0)

\* the highest balance of the trajectory up to the n-th trade
PeakBalance(n) ==
    CHOOSE b \in {BalanceAfter(i) : i \in 0..n} : \A i \in 0..n : BalanceAfter(i) <= b

RECURSIVE FractionLeq(_, _)
\* a <= b for fractions <<num, den>> with positive denominators, by whole
\* parts and then remainders, so that no product leaves the integer range
FractionLeq(a, b) ==
    IF a[1] \div a[2] # b[1] \div b[2] THEN a[1] \div a[2] < b[1] \div b[2]
    ELSE IF a[1] % a[2] = 0 THEN TRUE
    ELSE IF b[1] % b[2] = 0 THEN FALSE
    ELSE FractionLeq(<<b[2], b[1] % b[2]>>, <<a[2], a[1] % a[2]>>)

\* the decline from a reference balance to the balance after the n-th
\* trade, as a fraction of the reference; 0 when there is nothing to decline
\* from
DeclineFrom(reference, n) ==
    IF reference <= 0 THEN <<0, 1>> ELSE <<reference - BalanceAfter(n), reference>>

\* the largest of a set of fractions
Largest(fs) == CHOOSE f \in fs : \A g \in fs : FractionLeq(g, f)

\* max drawdown measured from the initial balance instead of the peak
MaxDrawdownFromStart ==
    Largest({DeclineFrom(initial_balance, n) : n \in 0..Len(positions)})

\* PaperTradingEngine.max_drawdown, as a fraction (times 100 in percent): the
\* largest decline from the peak so far along the balance trajectory
MaxDrawdown ==
    Largest({DeclineFrom(PeakBalance(n), n) : n \in 0..Len(positions)})

\* the dict of get_status, without its runtime entries
StatusReport ==
    [initial_balance |-> initial_balance, balance |-> balance,
     open_positions |-> Len(WithStatus("open")),
     closed_positions |-> Len(WithStatus("closed")),
     realized_pnl |-> RealizedPnl, unrealized_pnl |-> UnrealizedPnl,
     total_pnl |-> TotalPnl, return_percent |-> ReturnPercent, win_rate |-> WinRate,
     opportunities_seen |-> opportunities_seen,
     opportunities_executed |-> opportunities_executed,
     opportunities_skipped |-> opportunities_skipped]

\* the dict of get_summary, without its start and duration entries
SummaryReport(end_time) ==
    [end |-> end_time, initial_balance |-> initial_balance, final_balance |-> balance,
     total_pnl |-> TotalPnl, return_percent |-> ReturnPercent, win_rate |-> WinRate,
     opportunities_seen |-> opportunities_seen,
     opportunities_executed |-> opportunities_executed,
     opportunities_skipped |-> opportunities_skipped,
     trades |-> trades]

\* what a snapshot call hands back: the dict, or the exception of
\* return_percent when initial_balance is 0
Returned(op, dict) ==
    IF initial_balance = 0 THEN [op |-> op, raises |-> "ZeroDivisionError", dict |-> <<>>]
    ELSE [op |-> op, raises |-> "none", dict |-> <<dict>>]

\* PaperTradingEngine.get_status
GetStatus ==
    /\ report' = Some(Returned("get_status", StatusReport))
    /\ callbacks' = <<>>
    /\ UNCHANGED <<initial_balance, balance, position_size, liquidity_cap_pct, failure_rate,
                   positions, trades, session, opportunities_seen, opportunities_executed,
                   opportunities_skipped, opportunities_failed, observers, lastExec, origins,
                   inflight, calls>>

\* PaperTradingEngine.get_summary: the three session fields are assigned
\* before the dict is built
GetSummary ==
    /\ session' = [session EXCEPT !.end_time = Some(clock),
                                  !.final_balance = balance,
                                  !.total_pnl = TotalPnl]
    /\ report' = Some(Returned("get_summary", SummaryReport(clock)))
    /\ callbacks' = <<>>
    /\ UNCHANGED <<initial_balance, balance, position_size, liquidity_cap_pct, failure_rate,
                   positions, trades, opportunities_seen, opportunities_executed,
                   opportunities_skipped, opportunities_failed, observers, lastExec, origins,
                   inflight, calls>>

-----------------------------------------------------------------------------
(* execute_opportunity called from two threads.  The method takes no lock, so
   a caller can be suspended between two of its statements while the other
   runs.  A call is cut where the balance is involved: up to the balance
   check, the deduction, and the rest. *)

\* the threads that call the engine
Callers == {"s1", "s2"}

\* a caller outside execute_opportunity
Idle == [pc |-> "idle"]

\* a caller inside execute_opportunity, with its locals
Inside(pc, opp, draw, size, cost, expected_return) ==
    [pc |-> pc, opp |-> opp, draw |-> draw, size |-> size, cost |-> cost,
     expected_return |-> expected_return]

\* a call and its failure draw
EngineCall(opp, draw) == [opp |-> opp, draw |-> draw]

\* execute_opportunity from its first line to the balance check: a call that
\* is skipped or fails returns here
Enter(c, opp, draw) ==
    /\ inflight[c] = Idle
    /\ opportunities_seen < MaxSeen
    /\ opportunities_seen' = opportunities_seen + 1
    /\ calls' = Append(calls, EngineCall(opp, draw))
    /\ report' = None
    /\ UNCHANGED <<initial_balance, position_size, liquidity_cap_pct, failure_rate, observers>>
    /\ LET size == CalculateSize(opp)
           cost == Cost(opp, size)
       IN  IF size <= 0 THEN Skipped(opp, draw, "size") /\ UNCHANGED inflight
           ELSE IF ~HasUnderpriced(opp.type) /\ ~HasOverpriced(opp.type)
           THEN Skipped(opp, draw, "type") /\ UNCHANGED inflight
           ELSE IF SimulatedFailure(draw) THEN ExecutionFailed(opp, draw) /\ UNCHANGED inflight
           ELSE IF cost > balance THEN Skipped(opp, draw, "balance") /\ UNCHANGED inflight
           ELSE /\ inflight' = [inflight EXCEPT ![c] =
                                    Inside("checked", opp, draw, size, cost,
                                           ExpectedReturn(opp, size))]
                /\ UNCHANGED <<balance, positions, trades, session, opportunities_executed,
                               opportunities_skipped, opportunities_failed, origins,
                               lastExec, callbacks>>

\* "self.balance -= cost"
Deduct(c) ==
    /\ inflight[c].pc = "checked"
    /\ balance' = balance - inflight[c].cost
    /\ inflight' = [inflight EXCEPT ![c].pc = "deducted"]
    /\ UNCHANGED <<initial_balance, position_size, liquidity_cap_pct, failure_rate, positions,
                   trades, session, opportunities_seen, opportunities_executed,
                   opportunities_skipped, opportunities_failed, observers, lastExec,
                   callbacks, origins, report, calls>>

\* "Create position" to "return True": the position, the credit of the
\* return, the trade, the session totals and the callbacks
Settle(c) ==
    /\ inflight[c].pc = "deducted"
    /\ inflight' = [inflight EXCEPT ![c] = Idle]
    /\ UNCHANGED <<initial_balance, position_size, liquidity_cap_pct, failure_rate, observers,
                   opportunities_seen, opportunities_skipped, opportunities_failed, report,
                   calls>>
    /\ LET l == inflight[c]
           profit == l.expected_return - l.cost
       IN  IF l.cost = 0
           THEN /\ lastExec' = LastExec(l.opp, l.draw, "raised", "ZeroDivisionError")
                /\ callbacks' = <<>>
                /\ UNCHANGED <<balance, positions, trades, session, opportunities_executed,
                               origins>>
           ELSE /\ balance' = balance + l.expected_return
                /\ positions' = Append(positions,
                                       ClosedPosition(Len(positions) + 1, l.opp, l.size,
                                                      l.cost, profit))
                /\ origins' = Append(origins, l.opp)
                /\ opportunities_executed' = opportunities_executed + 1
                /\ trades' = Append(trades,
                                    TradeRecord(Len(trades) + 1, l.opp, l.size, l.cost))
                /\ session' = [session EXCEPT
                                   !.total_trades = @ + 1,
                                   !.winning_trades = IF profit > 0 THEN @ + 1 ELSE @,
                                   !.total_pnl = @ + profit]
                /\ callbacks' = Invoked(<<CallbackRecord("on_trade", ""),
                                          CallbackRecord("on_position_open", ""),
                                          CallbackRecord("on_position_close", "")>>)
                /\ lastExec' = LastExec(l.opp, l.draw, "true", "executed")

-----------------------------------------------------------------------------
(* OrderBook (src/src/polyarb/models.py).  Level prices are in cents, sizes
   in shares; an executable price is the exact fraction <<cent-shares, shares>>. *)

OrderBookLevel(price, size) == [price |-> price, size |-> size]

OrderBook(token_id, bids, asks) == [token_id |-> token_id, bids |-> bids, asks |-> asks]

\* OrderBook.best_ask
BestAsk(b) == IF b.asks # <<>> THEN Some(b.asks[1].price) ELSE None

RECURSIVE Walk(_, _, _, _)
\* the for loop of get_executable_price over levels[i..]: what is left of
\* remaining and total_cost when it ends
Walk(levels, i, remaining, total_cost) ==
    IF i > Len(levels) \/ remaining <= 0 THEN <<remaining, total_cost>>
    ELSE LET fill_size == Min(remaining, levels[i].size)
         IN  Walk(levels, i + 1, remaining - fill_size,
                  total_cost + fill_size * levels[i].price)

\* what a call hands back: a value, None, or an exception
PriceResult(raises, value) == [raises |-> raises, value |-> value]

\* get_executable_price that quotes the first level for any size
GetExecutablePriceAtBest(b, side, size) ==
    LET levels == IF side = "buy" THEN b.asks ELSE b.bids
    IN  IF Walk(levels, 1, size, 0)[1] > 0 THEN PriceResult("none", None)
        ELSE IF size = 0 THEN PriceResult("ZeroDivisionError", None)
        ELSE PriceResult("none", Some(<<levels[1].price * size, size>>))

\* OrderBook.get_executable_price: with size 0 the loop ends at once and
\* total_cost / size divides by zero
GetExecutablePrice(b, side, size) ==
    LET levels == IF side = "buy" THEN b.asks ELSE b.bids
        w == Walk(levels, 1, size, 0)
    IN  IF w[1] > 0 THEN PriceResult("none", None)
        ELSE IF size = 0 THEN PriceResult("ZeroDivisionError", None)
        ELSE PriceResult("none", Some(<<w[2], size>>))

\* a call of get_executable_price and what it returned
PriceCall(op, side, size, result) ==
    [op |-> op, side |-> side, size |-> size, result |-> result]

\* book.get_executable_price(side, size)
ExecutablePrice(side, size) ==
    /\ priced' = PriceCall("get_executable_price", side, size,
                           GetExecutablePrice(book, side, size))
    /\ UNCHANGED book

-----------------------------------------------------------------------------
(* Inputs of the detector *)

\* the discovery client's registrations
BinaryListings ==
    { BinaryListing("m1", 1000, "y1", "n1", None, None, None, None),
      BinaryListing("m1", 50000, "y1", "n1", Some(40), Some(40), Some(60), Some(60)),
      BinaryListing("m1", 999, "y1", "n1", Some(45), Some(48), None, None) }

EventListings ==
    { EventListing("e1", 1000, << OutcomeListing("o1", "a", None, None),
                                   OutcomeListing("o2", "b", Some(30), Some(60)),
                                   OutcomeListing("o3", "y1", Some(30), Some(30)) >>),
      EventListing("e1", 500, << OutcomeListing("o1", "a", Some(30), Some(20)),
                                 OutcomeListing("o2", "b", Some(30), Some(20)),
                                 OutcomeListing("o3", "c", Some(30), Some(20)) >>) }

Str(t) == F("str", t)

\* well-formed ticks: one token, a best_bid or a best_ask
QuoteTicks ==
    { Tick(Str(q[1]), Absent, q[2], q[3], Absent, Absent) :
        q \in { <<"y1", Absent, Num(30)>>, <<"y1", Absent, Num(60)>>, <<"y1", Num(60), Absent>>,
                <<"n1", Absent, Num(30)>>, <<"n1", Num(60), Absent>>,
                <<"a", Absent, Num(30)>>, <<"a", Num(60), Absent>>,
                <<"zz", Absent, Num(30)>> } }

\* well-formed ticks in the other formats _extract_prices reads
FormatTicks ==
    { Tick(Str("y1"), Num(30), Absent, Absent, Absent, Absent),
      Tick(Str("n1"), Absent, Absent, Absent, Num(60), Num(30)),
      Tick(Str("a"), Num(45), Absent, Num(30), Absent, Num(60)) }

\* malformed ticks
MalformedTicks ==
    { NonDict,
      Tick(NoAsset("absent"), Absent, Absent, Num(30), Absent, Absent),
      Tick(NoAsset("empty"), Absent, Absent, Num(30), Absent, Absent),
      Tick(NoAsset("unhashable"), Absent, Absent, Num(30), Absent, Absent),
      Tick(Str("y1"), Bad, Absent, Absent, Absent, Absent),
      Tick(Str("a"), Absent, Bad, Bad, Absent, Absent),
      Tick(Str("y1"), Absent, Absent, Absent, F("notlist", 0), Bad),
      Tick(Str("y1"), Absent, Absent, Absent, F("elemnotdict", 0), Absent),
      Tick(Str("zz"), Absent, Absent, Absent, Absent, F("elemnotdict", 0)) }

Ticks == QuoteTicks \cup FormatTicks \cup MalformedTicks

\* the ticks the batches are made of
BatchTicks ==
    { Tick(Str("y1"), Absent, Absent, Num(30), Absent, Absent),
      Tick(Str("n1"), Absent, Absent, Num(30), Absent, Absent),
      Tick(Str("y1"), Absent, Absent, Absent, F("elemnotdict", 0), Absent) }

Messages ==
    {Single(t) : t \in Ticks}
    \cup {Batch(<<>>)}
    \cup {Batch(<<t1, t2>>) : t1 \in BatchTicks, t2 \in BatchTicks}

\* registrations that come again: a market listed a second time under other
\* token ids, and a second market that takes over a token of the first
RelistedMarkets ==
    { BinaryListing("m1", 1000, "y1", "n1", Some(40), Some(40), None, None),
      BinaryListing("m1", 1000, "y2", "n2", None, None, None, None),
      BinaryListing("m2", 1000, "y1", "n3", None, None, None, None) }

\* an event of four outcomes of which three have an ask, the same event
\* listed again with three outcomes under other token ids, and a second event
\* that takes over a token of the first
RelistedEvents ==
    { EventListing("e1", 1000, << OutcomeListing("o1", "a", Some(20), None),
                                   OutcomeListing("o2", "b", Some(20), None),
                                   OutcomeListing("o3", "c", Some(20), None),
                                   OutcomeListing("o4", "d", None, None) >>),
      EventListing("e1", 1000, << OutcomeListing("o1", "a", Some(20), None),
                                   OutcomeListing("o2", "b", Some(20), None),
                                   OutcomeListing("o3", "y1", None, None) >>),
      EventListing("e2", 1000, << OutcomeListing("p1", "a", None, None),
                                   OutcomeListing("p2", "e", None, None),
                                   OutcomeListing("p3", "f", None, None) >>) }

\* the ticks that follow them
RelistedTicks ==
    { Single(Tick(Str(q[1]), Absent, Absent, Num(q[2]), Absent, Absent)) :
        q \in { <<"y1", 30>>, <<"c", 20>>, <<"d", 30>> } }

-----------------------------------------------------------------------------
(* Inputs of the engine *)

\* profit_percent 3.09 of the tests' opportunities
Pct309 == Some(<<309, 100>>)

EngineOpportunities ==
    { EngineOpportunity("BINARY_UNDERPRICED", "0xtest", Some(97), None, Pct309, Some(50000)),
      EngineOpportunity("BINARY_UNDERPRICED", "0xtest", None, None, Pct309, Some(50000)),
      EngineOpportunity("BINARY_UNDERPRICED", "0xtest", Some(90), None, None, Some(1000)),
      EngineOpportunity("BINARY_UNDERPRICED", "0xtest", Some(97), None, Pct309, Some(0)),
      EngineOpportunity("BINARY_UNDERPRICED", "0xtest", Some(97), None, Pct309, None),
      EngineOpportunity("BINARY_UNDERPRICED", "0xtest", Some(0), None, Pct309, Some(50000)),
      EngineOpportunity("BINARY_UNDERPRICED", "0xtest", Some(110), None, None, Some(50000)),
      EngineOpportunity("NEGRISK_UNDERPRICED", "ev1", Some(88), None, None, Some(10000)),
      EngineOpportunity("BINARY_OVERPRICED", "0xtest", None, Some(103), Pct309, Some(50000)),
      EngineOpportunity("BINARY_OVERPRICED", "0xtest", None, None, Pct309, Some(50000)),
      EngineOpportunity("NEGRISK_OVERPRICED", "ev1", None, Some(95), None, Some(2000)),
      EngineOpportunity("UNKNOWN_TYPE", "0xtest", Some(97), None, Pct309, Some(50000)),
      EngineOpportunity("", "0xtest", Some(97), None, Pct309, Some(50000)),
      EngineOpportunity("BINARY_OVERPRICED", "0xtest", None, Some(103), Pct309, Some(-100)) }

\* the opportunities of the runs that ask for status and summary: a gain on
\* either side, a loss, and one that is skipped
ReportedOpportunities ==
    { EngineOpportunity("BINARY_UNDERPRICED", "0xtest", Some(97), None, Pct309, Some(50000)),
      EngineOpportunity("BINARY_UNDERPRICED", "0xtest", Some(110), None, None, Some(50000)),
      EngineOpportunity("BINARY_OVERPRICED", "0xtest", None, Some(103), Pct309, Some(50000)),
      EngineOpportunity("UNKNOWN_TYPE", "0xtest", Some(97), None, Pct309, Some(50000)) }

AllCallbacks == {"on_trade", "on_position_open", "on_position_close", "on_failure"}

EngineConfig(initial, size, cap, rate, obs) ==
    [initial_balance |-> initial, position_size |-> size, liquidity_cap_pct |-> cap,
     failure_rate |-> rate, observers |-> obs]

\* constructor arguments (dollars, dollars, percent, percent) and callbacks
EngineConfigs ==
    { EngineConfig(1000, 100, DefaultLiquidityCapPct, 0, AllCallbacks),
      EngineConfig(50, 100, 5, 0, {}),
      EngineConfig(97, 100, 5, 0, AllCallbacks),
      EngineConfig(0, 100, 5, 0, {}),
      EngineConfig(10000, 1000, 1, 0, {}),
      EngineConfig(10000, 100, 5, 100, AllCallbacks),
      EngineConfig(50, 100, 5, 100, {"on_failure"}),
      EngineConfig(10000, 100, 3, 20, AllCallbacks),
      EngineConfig(1000, 100, 5, 0, {"on_trade", "on_position_close"}) }

-----------------------------------------------------------------------------
(* A price state on its own *)

Market(s) == [kind |-> "market", state |-> s]

Event(s) == [kind |-> "event", state |-> s]

\* a call on the price state, its arguments and what it returned
StateCall(op, args, result) == [op |-> op, args |-> args, result |-> result]

\* state.update_price(token_id, bid, ask) of either class
UpdatePrice(token_id, bid, ask) ==
    /\ clock < MaxCalls
    /\ clock' = clock + 1
    /\ subject' = IF subject.kind = "market"
                  THEN Market(MarketUpdatePrice(subject.state, token_id, bid, ask, clock'))
                  ELSE Event(EventUpdatePrice(subject.state, token_id, bid, ask, clock'))
    /\ stateCall' = StateCall("update_price",
                              [token_id |-> token_id, bid |-> bid, ask |-> ask], None)

\* check_underpriced that stamps last_update as update_price does
CheckUnderpricedStamping(min_profit) ==
    /\ clock < MaxCalls
    /\ clock' = clock + 1
    /\ stateCall' = StateCall("check_underpriced", [min_profit |-> min_profit],
                              IF subject.kind = "market"
                              THEN MarketCheckUnderpriced(subject.state, min_profit)
                              ELSE EventCheckUnderpriced(subject.state, min_profit))
    /\ subject' = [subject EXCEPT !.state.last_update = clock']

\* state.check_underpriced(min_profit) of either class
CheckUnderpriced(min_profit) ==
    /\ clock < MaxCalls
    /\ clock' = clock + 1
    /\ stateCall' = StateCall("check_underpriced", [min_profit |-> min_profit],
                              IF subject.kind = "market"
                              THEN MarketCheckUnderpriced(subject.state, min_profit)
                              ELSE EventCheckUnderpriced(subject.state, min_profit))
    /\ UNCHANGED subject

\* state.check_overpriced(min_profit) of either class
CheckOverpriced(min_profit) ==
    /\ clock < MaxCalls
    /\ clock' = clock + 1
    /\ stateCall' = StateCall("check_overpriced", [min_profit |-> min_profit],
                              IF subject.kind = "market"
                              THEN MarketCheckOverpriced(subject.state, min_profit)
                              ELSE EventCheckOverpriced(subject.state, min_profit))
    /\ UNCHANGED subject

-----------------------------------------------------------------------------
(* Inputs of the order book *)

\* the levels an ask side is made of: the prices of the tests' book, an
\* empty level, a thin and a full one
AskLevels == {OrderBookLevel(p, n) : p \in {52, 53}, n \in {0, 100, 500}}

\* the sequences over S of length n
Tuples(S, n) == [1..n -> S]

\* ask sides of up to MaxLevels levels, in any order
AskSides == UNION {Tuples(AskLevels, n) : n \in 0..MaxLevels}

\* bid sides: none, the tests' book, a thin one
BidSides ==
    { <<>>,
      <<OrderBookLevel(48, 500), OrderBookLevel(47, 500)>>,
      <<OrderBookLevel(48, 100)>> }

OrderBooks == {OrderBook("tok", bids, asks) : bids \in BidSides, asks \in AskSides}

Sides == {"buy", "sell"}

OrderSizes == {0, 100, 600, 1000}

-----------------------------------------------------------------------------
(* Inputs of the price states *)

\* a NegRiskEventState whose dicts were filled
EventWith(markets, yes_prices, yes_bids) ==
    [NegRiskEventState("e1", 1000, 0) EXCEPT !.markets = markets,
                                             !.yes_prices = yes_prices,
                                             !.yes_bids = yes_bids]

Outcomes == Put(Put(Put(EmptyMap, "o1", "a"), "o2", "b"), "o3", "c")

\* price states at construction and after direct assignment of quotes
Subjects ==
    { Market(MarketState("m1", 1000, "y1", "n1", None, None, None, None, 0)),
      Market(MarketState("m1", 1000, "y1", "n1", Some(40), Some(-10), Some(60), Some(-10), 0)),
      Event(EventWith(Outcomes, EmptyMap, EmptyMap)),
      Event(EventWith(Outcomes, Put(Put(EmptyMap, "b", 20), "c", 20),
                      Put(Put(EmptyMap, "b", 30), "c", 30))),
      Event(EventWith(Outcomes, Put(Put(Put(EmptyMap, "a", 3), "b", 3), "c", 4), EmptyMap)),
      Event(EventWith(EmptyMap, Put(Put(Put(EmptyMap, "a", 40), "b", 40), "c", -10),
                      Put(Put(Put(EmptyMap, "a", 60), "b", 60), "c", -10))) }

\* token ids of update_price: of the market, of the event, of neither
StateTokens == {"y1", "n1", "a", "zz"}

\* bid and ask of update_price
StateQuotes == {None, Some(0), Some(40), Some(60)}

\* min_profit of the checks, in percent
MinProfits == {0, 20, 25, 30}

-----------------------------------------------------------------------------
(* The state machines *)

\* RealtimeArbitrageDetector.__init__
DetectorInit ==
    /\ binary_markets = EmptyMap
    /\ token_to_market = EmptyMap
    /\ negrisk_events = EmptyMap
    /\ token_to_event = EmptyMap
    /\ seen_opportunities = {}
    /\ messages_processed = 0
    /\ opportunities_found = 0
    /\ on_opportunity = FALSE
    /\ lastCall = Call("init", <<>>)
    /\ ret = <<>>
    /\ raised = "none"
    /\ notified = <<>>
    /\ tickLog = <<>>
    /\ returnedSinceClear = {}
    /\ returnedTwice = FALSE
    /\ returnedBeforeClear = {}
    /\ returnedTotal = 0

\* PaperTradingEngine.__init__
EngineInit(c) ==
    /\ initial_balance = Fine(c.initial_balance)
    /\ balance = Fine(c.initial_balance)
    /\ position_size = c.position_size * Unit
    /\ liquidity_cap_pct = c.liquidity_cap_pct
    /\ failure_rate = c.failure_rate
    /\ positions = <<>>
    /\ trades = <<>>
    /\ session = [end_time |-> None, final_balance |-> 0,
                  total_trades |-> 0, winning_trades |-> 0, total_pnl |-> 0]
    /\ opportunities_seen = 0
    /\ opportunities_executed = 0
    /\ opportunities_skipped = 0
    /\ opportunities_failed = 0
    /\ observers = c.observers
    /\ lastExec = LastExec(<<>>, FALSE, "none", "init")
    /\ callbacks = <<>>
    /\ origins = <<>>
    /\ report = None
    /\ inflight = [caller \in Callers |-> Idle]
    /\ calls = <<>>

\* the clock at the start of a run, and a price state nothing was called on
StateInit(s) ==
    /\ clock = 0
    /\ subject = s
    /\ stateCall = StateCall("init", <<>>, None)

\* an order book nothing was asked of
BookInit(b) ==
    /\ book = b
    /\ priced = PriceCall("init", "", 0, PriceResult("none", None))

DefaultBook == OrderBook("tok", <<>>, <<>>)

DefaultSubject == Market(MarketState("m1", 1000, "y1", "n1", None, None, None, None, 0))

-----------------------------------------------------------------------------
(* WebSocketClient (api/websocket.py): connect, close, the subscription     *)
(* calls, and listen() stepped from one await to the next.  Delays and      *)
(* waits are in seconds.  Between two awaits listen() runs alone, so each   *)
(* action below runs from one await of listen() to its next one, and the    *)
(* calls of other tasks happen while listen() stands at an await.           *)

\* self._reconnect_delay = 1.0
InitialReconnectDelay == 1

\* self._max_reconnect_delay = 60.0
MaxReconnectDelay == 60

\* await asyncio.sleep(1) of the handler for other exceptions
PauseAfterError == 1

\* the token lists the subscription calls are given
TokenLists == {<<"t1">>, <<"t2">>, <<"t1", "t2">>}

\* the ways websockets.connect fails
ConnectErrors == {"TimeoutError", "OSError"}

Feed(ws, running, subscribed_tokens, reconnect_delay, pc) ==
    [ws |-> ws, running |-> running, subscribed_tokens |-> subscribed_tokens,
     reconnect_delay |-> reconnect_delay,
     \* where listen() stands: "idle" before it is called, "connecting",
     \* "subscribing", "receiving", "backoff" (the sleep of the ConnectionClosed
     \* handler), "pause" (the sleep of the handler for other exceptions),
     \* "yielded", "done"
     pc |-> pc,
     \* observations
     closed |-> FALSE,    \* close() was called since the caller's last connect()
     attempt |-> 0,       \* connects listen() has begun since the connection was lost
     wait |-> 0,          \* seconds slept since the loss or the last failed connect
     slept |-> 0,         \* seconds slept before the connect in progress
     sending |-> <<>>,    \* the token list of the subscription listen() is sending
     resent |-> None,     \* the subscription listen() sent on this connection
     recv |-> "none",     \* how the last recv of listen() ended
     error |-> "none"]    \* what the caller's last call raised

FeedInit == feed = Feed(FALSE, FALSE, <<>>, InitialReconnectDelay, "idle")

\* "while self._running:" and the code down to the next await
LoopHead(f) ==
    IF ~f.running THEN [f EXCEPT !.pc = "done"]
    ELSE IF ~f.ws
         THEN [f EXCEPT !.pc = "connecting", !.attempt = @ + 1, !.slept = f.wait, !.wait = 0]
         ELSE [f EXCEPT !.pc = "receiving"]

\* "except websockets.ConnectionClosed:" down to its sleep
OnConnectionClosed(f) ==
    LET g == [f EXCEPT !.ws = FALSE, !.resent = None, !.attempt = 0, !.wait = 0]
    IN  IF g.running
        THEN [g EXCEPT !.pc = "backoff", !.wait = g.reconnect_delay]
        ELSE LoopHead(g)

\* min(self._reconnect_delay * 2, self._max_reconnect_delay)
Doubled(delay) == Min(delay * 2, MaxReconnectDelay)

\* "except Exception as e:" down to its sleep
OnException(f) ==
    IF f.running
    THEN [f EXCEPT !.pc = "pause", !.wait = PauseAfterError]
    ELSE LoopHead(f)

\* what connect() sets when websockets.connect returned
Connected(f) ==
    [f EXCEPT !.ws = TRUE, !.running = TRUE, !.reconnect_delay = InitialReconnectDelay,
              !.resent = None]

\* connect() called by the user of the client
Connect(ok) ==
    /\ feed.pc \in {"idle", "done"}
    /\ ~feed.ws
    /\ feed' = IF ok
               THEN [Connected(feed) EXCEPT !.closed = FALSE, !.error = "none"]
               ELSE [feed EXCEPT !.error = "OSError"]

\* close()
Close ==
    /\ feed' = [feed EXCEPT !.running = FALSE, !.ws = FALSE, !.closed = TRUE,
                            !.resent = None, !.error = "none"]

\* subscribe(token_ids) called by the user of the client
Subscribe(token_ids) ==
    /\ feed' = IF ~feed.ws
               THEN [feed EXCEPT !.error = "RuntimeError"]
               ELSE [feed EXCEPT !.subscribed_tokens = token_ids, !.error = "none"]

Without(tokens, token_ids) ==
    SelectSeq(tokens, LAMBDA t : \A i \in 1..Len(token_ids) : token_ids[i] # t)

\* unsubscribe(token_ids)
Unsubscribe(token_ids) ==
    /\ feed' = IF ~feed.ws
               THEN [feed EXCEPT !.error = "none"]
               ELSE [feed EXCEPT !.subscribed_tokens = Without(@, token_ids),
                                 !.error = "none"]

\* add_subscription(token_ids)
AddSubscription(token_ids) ==
    /\ Len(feed.subscribed_tokens) + Len(token_ids) <= MaxSubscribed
    /\ feed' = IF ~feed.ws
               THEN [feed EXCEPT !.error = "none"]
               ELSE [feed EXCEPT !.subscribed_tokens = @ \o token_ids, !.error = "none"]

\* listen() is called and runs to its first await
Listen ==
    /\ feed.pc \in {"idle", "done"}
    /\ feed' = LoopHead([feed EXCEPT !.attempt = 0, !.wait = 0, !.slept = 0])

\* the connect() of listen() returns: "if self._subscribed_tokens: await
\* self.subscribe(self._subscribed_tokens)", else on to recv
ConnectSucceeds ==
    /\ feed.pc = "connecting"
    /\ LET g == Connected(feed)
       IN  feed' = IF g.subscribed_tokens # <<>>
                   THEN [g EXCEPT !.pc = "subscribing", !.sending = g.subscribed_tokens]
                   ELSE [g EXCEPT !.pc = "receiving", !.sending = <<>>]

\* the connect() of listen() raises: a TimeoutError is caught by "except
\* asyncio.TimeoutError: continue", anything else by "except Exception"
ConnectFails(kind) ==
    /\ feed.pc = "connecting"
    /\ feed.attempt < MaxAttempts
    /\ feed' = IF kind = "TimeoutError" THEN LoopHead(feed) ELSE OnException(feed)

\* the send of the subscription returns
SubscribeSent ==
    /\ feed.pc = "subscribing"
    /\ feed' = [feed EXCEPT !.resent = Some(feed.sending), !.pc = "receiving"]

\* the send of the subscription raises ConnectionClosed
SubscribeFails ==
    /\ feed.pc = "subscribing"
    /\ feed' = OnConnectionClosed(feed)

\* recv returns a message that parses: the callbacks run, each inside its own
\* try, and the message is yielded
Receive ==
    /\ feed.pc = "receiving"
    /\ feed.ws
    /\ feed' = [feed EXCEPT !.pc = "yielded", !.recv = "message"]

\* the consumer of listen() asks for the next message
Resume ==
    /\ feed.pc = "yielded"
    /\ feed' = LoopHead(feed)

\* no message for 30 seconds: "except asyncio.TimeoutError: continue"
ReceiveTimeout ==
    /\ feed.pc = "receiving"
    /\ feed.ws
    /\ feed' = LoopHead([feed EXCEPT !.recv = "TimeoutError"])

\* recv returns a message json.loads rejects
ReceiveGarbage ==
    /\ feed.pc = "receiving"
    /\ feed.ws
    /\ feed' = OnException([feed EXCEPT !.recv = "JSONDecodeError"])

\* recv raises ConnectionClosed: the server dropped the connection, or close()
\* closed it
ConnectionLost ==
    /\ feed.pc = "receiving"
    /\ feed' = OnConnectionClosed([feed EXCEPT !.recv = "ConnectionClosed"])

\* the sleep of the ConnectionClosed handler is over
BackoffOver ==
    /\ feed.pc = "backoff"
    /\ feed' = LoopHead([feed EXCEPT !.reconnect_delay = Doubled(@)])

\* the sleep of the handler for other exceptions is over
PauseOver ==
    /\ feed.pc = "pause"
    /\ feed' = LoopHead(feed)

-----------------------------------------------------------------------------
(* CLOBClient (api/clob.py): the semaphore, get_price and get_order_book    *)
(* stepped from one await to the next, and the batches that gather them     *)

\* the batches in progress on one client at a time: a get_prices_batch and a
\* get_order_books_batch
Batches == {"prices", "books"}

\* the longest token list a batch is given
MaxBatch == 3

\* the token lists the batches are given
BatchTokens == {<<"t1", "t2", "t3">>, <<"t1", "t1">>}

\* a get_price or get_order_book coroutine: "waiting" for a slot of the
\* semaphore, "inflight" while it holds one, "done" with what it returned
Request(at, result) == [at |-> at, result |-> result]

\* a get_prices_batch ("price") or get_order_books_batch ("book") call, the
\* coroutines it gathers, and the dict it returned
GatherCall(kind, token_ids, tasks, returned) ==
    [kind |-> kind, token_ids |-> token_ids, tasks |-> tasks, returned |-> returned]

NoCall == GatherCall("none", <<>>, <<>>, None)

\* asyncio.Semaphore(config.api.max_concurrent) and no call in progress
ClobInit == clob = [value |-> MaxConcurrent, batches |-> [b \in Batches |-> NoCall]]

\* tasks = [self.get_price(tid, side) for tid in token_ids], handed to gather
StartBatch(b, kind, token_ids) ==
    /\ clob.batches[b] = NoCall
    /\ clob' = [clob EXCEPT !.batches[b] =
                   GatherCall(kind, token_ids,
                         [i \in 1..Len(token_ids) |-> Request("waiting", None)], None)]

\* get_prices_batch(token_ids, side) is called
GetPricesBatch(token_ids) == StartBatch("prices", "price", token_ids)

\* get_order_books_batch(token_ids) is called
GetOrderBooksBatch(token_ids) == StartBatch("books", "book", token_ids)

\* "async with self._semaphore:" is entered: a slot is taken when one is free
Acquire(b, i) ==
    /\ i \in 1..Len(clob.batches[b].tasks)
    /\ clob.batches[b].tasks[i].at = "waiting"
    /\ clob.value > 0
    /\ clob' = [clob EXCEPT !.value = @ - 1, !.batches[b].tasks[i].at = "inflight"]

\* what the request returns: the price or the book of a 200 response, None for
\* another status, for an empty price, and for an exception, which "except
\* Exception: pass" swallows
ResultOf(kind, outcome) == IF outcome = "200" THEN Some(kind) ELSE None

\* the request ends and "async with self._semaphore:" is left, the slot kept
\* when the request failed
SlotsAfterLeaky(value, outcome) == IF outcome = "200" THEN value + 1 ELSE value

\* the request ends and "async with self._semaphore:" is left: the slot is
\* given back on every way out
SlotsAfter(value, outcome) == value + 1

\* the HTTP request of a coroutine ends, with a 200 response, with another
\* status or an empty price, or with an exception
Respond(b, i, outcome) ==
    /\ i \in 1..Len(clob.batches[b].tasks)
    /\ clob.batches[b].tasks[i].at = "inflight"
    /\ clob' = [clob EXCEPT !.value = SlotsAfter(@, outcome),
                            !.batches[b].tasks[i] =
                                Request("done", ResultOf(clob.batches[b].kind, outcome))]

\* the index of the last request for token t: a later assignment to prices[tid]
\* replaces an earlier one
LastFor(token_ids, t) ==
    CHOOSE i \in 1..Len(token_ids) :
        /\ token_ids[i] = t
        /\ \A j \in (i + 1)..Len(token_ids) : token_ids[j] # t

\* the dict the loop over zip(token_ids, results) builds
Gathered(token_ids, tasks) ==
    [t \in {token_ids[i] : i \in 1..Len(token_ids)} |->
        tasks[LastFor(token_ids, t)].result]

\* gather has every result and the batch returns its dict
ReturnBatch(b) ==
    /\ clob.batches[b] # NoCall
    /\ clob.batches[b].returned = None
    /\ \A i \in 1..Len(clob.batches[b].tasks) : clob.batches[b].tasks[i].at = "done"
    /\ clob' = [clob EXCEPT !.batches[b].returned =
                   Some(Gathered(clob.batches[b].token_ids, clob.batches[b].tasks))]

\* the ways a request ends
Responses == {"200", "404", "ClientError"}

-----------------------------------------------------------------------------
(* BinaryArbitrageStrategy (strategies/binary_arb.py): analyze and its two  *)
(* checks, as functions of the market and of the prices the CLOB serves     *)

\* models.Token, of which the strategy reads token_id and writes the prices
Token(token_id, price, best_bid, best_ask) ==
    [token_id |-> token_id, price |-> price, best_bid |-> best_bid, best_ask |-> best_ask]

\* models.Market, of which the strategy reads these
StrategyMarket(market_type, tokens, liquidity) ==
    [market_type |-> market_type, tokens |-> tokens, liquidity |-> liquidity]

\* the strategy's thresholds, the market, and per token of the market what
\* get_prices_batch serves for side "buy" (asks) and side "sell" (bids)
Analysis(min_profit, min_liquidity, market, asks, bids) ==
    [min_profit |-> min_profit, min_liquidity |-> min_liquidity, market |-> market,
     asks |-> asks, bids |-> bids,
     \* whether analyze was called, and what it returned
     called |-> FALSE, result |-> None]

\* the ArbitrageOpportunity of the strategy, of which these fields are kept
StrategyOpportunity(arb_type, total_cost, profit, profit_percent, tokens, liquidity) ==
    [arb_type |-> arb_type, market_type |-> "BINARY", total_cost |-> total_cost,
     profit |-> profit, profit_percent |-> profit_percent, tokens |-> tokens,
     liquidity |-> liquidity]

\* Strategy.meets_thresholds, profit_percent being the fraction <<num, den>>
MeetsThresholds(profit_percent, liquidity, min_profit, min_liquidity) ==
    /\ profit_percent[1] >= min_profit * profit_percent[2]
    /\ liquidity >= min_liquidity

\* _check_underpriced: None, or the opportunity, whose tokens carry the asks
CheckUnderpricedAsks(a) ==
    LET yes_ask == a.asks[1]
        no_ask == a.asks[2]
        total_cost == Val(yes_ask) + Val(no_ask)
        profit_percent == <<(Unit - total_cost) * 100, total_cost>>
    IN  IF IsNone(yes_ask) \/ IsNone(no_ask) THEN None
        ELSE IF Val(yes_ask) <= 0 \/ Val(no_ask) <= 0 THEN None
        ELSE IF total_cost >= Unit THEN None
        ELSE IF ~MeetsThresholds(profit_percent, a.market.liquidity, a.min_profit,
                                 a.min_liquidity) THEN None
        ELSE Some(StrategyOpportunity("binary_underpriced", total_cost,
                      Unit - total_cost, profit_percent,
                      <<[a.market.tokens[1] EXCEPT !.price = yes_ask, !.best_ask = yes_ask],
                        [a.market.tokens[2] EXCEPT !.price = no_ask, !.best_ask = no_ask]>>,
                      a.market.liquidity))

\* _check_overpriced: None, or the opportunity, whose tokens carry the bids
CheckOverpricedBids(a) ==
    LET yes_bid == a.bids[1]
        no_bid == a.bids[2]
        total_value == Val(yes_bid) + Val(no_bid)
        profit_percent == <<(total_value - Unit) * 100, Unit>>
    IN  IF IsNone(yes_bid) \/ IsNone(no_bid) THEN None
        ELSE IF Val(yes_bid) <= 0 \/ Val(no_bid) <= 0 THEN None
        ELSE IF total_value <= Unit THEN None
        ELSE IF ~MeetsThresholds(profit_percent, a.market.liquidity, a.min_profit,
                                 a.min_liquidity) THEN None
        ELSE Some(StrategyOpportunity("binary_overpriced", Unit,
                      total_value - Unit, profit_percent,
                      <<[a.market.tokens[1] EXCEPT !.price = yes_bid, !.best_bid = yes_bid],
                        [a.market.tokens[2] EXCEPT !.price = no_bid, !.best_bid = no_bid]>>,
                      a.market.liquidity))

\* analyze with the two checks in the other order
AnalyzeOverpricedFirst(a) ==
    IF a.market.market_type # "BINARY" \/ Len(a.market.tokens) # 2 THEN None
    ELSE IF ~IsNone(CheckOverpricedBids(a)) THEN CheckOverpricedBids(a)
    ELSE CheckUnderpricedAsks(a)

\* analyze: None unless the market is binary with two tokens, else what the
\* underpriced check returns, else what the overpriced check returns
AnalyzeMarket(a) ==
    IF a.market.market_type # "BINARY" \/ Len(a.market.tokens) # 2 THEN None
    ELSE IF ~IsNone(CheckUnderpricedAsks(a)) THEN CheckUnderpricedAsks(a)
    ELSE CheckOverpricedBids(a)

\* the tokens an opportunity returned by analyze leaves in the market: the
\* opportunity holds the market's own Token objects
TokensAfter(a, result) == IF IsNone(result) THEN a.market.tokens ELSE Val(result).tokens

\* analyze(market) is called
Analyze ==
    /\ ~analysis.called
    /\ LET r == AnalyzeMarket(analysis)
       IN  analysis' = [analysis EXCEPT !.called = TRUE, !.result = r,
                                        !.market.tokens = TokensAfter(analysis, r)]

\* the prices the CLOB serves, in cents
ServedPrices == {None, Some(0), Some(30), Some(48), Some(60)}

NewTokens(n) == [i \in 1..n |-> Token(i, None, None, None)]

StrategyMarkets ==
    {StrategyMarket(market_type, NewTokens(n), liquidity) :
        market_type \in {"BINARY", "NEGRISK"}, n \in 1..3, liquidity \in {500, 1000}}

\* min_profit_percent as the strategy is constructed with, the default included
StrategyMinProfits == {MinProfitPercent, 10}

AnalysisInit(a) == analysis = a

DefaultAnalysis ==
    Analysis(MinProfitPercent, MinLiquidity, StrategyMarket("BINARY", NewTokens(2), 1000),
             <<None, None>>, <<None, None>>)

Analyses ==
    {Analysis(min_profit, MinLiquidity, market, <<a1, a2>>, <<b1, b2>>) :
        min_profit \in StrategyMinProfits, market \in StrategyMarkets,
        a1 \in ServedPrices, a2 \in ServedPrices, b1 \in ServedPrices, b2 \in ServedPrices}

-----------------------------------------------------------------------------
(* Specifications *)

ApiInit ==
    /\ FeedInit
    /\ ClobInit
    /\ AnalysisInit(DefaultAnalysis)

DefaultEngine == EngineConfig(DefaultInitialBalance, DefaultPositionSize,
                              DefaultLiquidityCapPct, 0, {})

Init ==
    /\ DetectorInit
    /\ EngineInit(DefaultEngine)
    /\ StateInit(DefaultSubject)
    /\ BookInit(DefaultBook)
    /\ ApiInit

Next ==
    \/ \E l \in BinaryListings : RegisterBinaryMarket(l) /\ UNCHANGED <<engVars, stateVars, bookVars, apiVars>>
    \/ \E l \in EventListings : RegisterNegriskEvent(l) /\ UNCHANGED <<engVars, stateVars, bookVars, apiVars>>
    \/ \E message \in Messages : ProcessMessage(message) /\ UNCHANGED <<engVars, stateVars, bookVars, apiVars>>
    \/ ClearSeen /\ UNCHANGED <<engVars, stateVars, bookVars, apiVars>>
    \/ SetOnOpportunity /\ UNCHANGED <<engVars, stateVars, bookVars, apiVars>>

\* the detector, driven by registrations and ticks
Spec == Init /\ [][Next]_vars

InitEngine ==
    /\ DetectorInit
    /\ \E c \in EngineConfigs : EngineInit(c)
    /\ StateInit(DefaultSubject)
    /\ BookInit(DefaultBook)
    /\ ApiInit

NextEngine ==
    \E opp \in EngineOpportunities, draw \in BOOLEAN :
        ExecuteOpportunity(opp, draw) /\ UNCHANGED <<detVars, stateVars, bookVars, apiVars>>

\* the paper trading engine, driven by opportunities
SpecEngine == InitEngine /\ [][NextEngine]_vars

NextReport ==
    \/ \E opp \in ReportedOpportunities, draw \in BOOLEAN :
           ExecuteOpportunity(opp, draw) /\ UNCHANGED <<detVars, stateVars, bookVars, apiVars>>
    \/ GetStatus /\ UNCHANGED <<detVars, stateVars, bookVars, apiVars>>
    \/ GetSummary /\ UNCHANGED <<detVars, stateVars, bookVars, apiVars>>

\* the paper trading engine, driven by opportunities and by calls for its
\* status and summary
SpecReport == InitEngine /\ [][NextReport]_vars

NextCallers ==
    \/ \E c \in Callers, opp \in ReportedOpportunities, draw \in BOOLEAN :
           Enter(c, opp, draw) /\ UNCHANGED <<detVars, stateVars, bookVars, apiVars>>
    \/ \E c \in Callers : Deduct(c) /\ UNCHANGED <<detVars, stateVars, bookVars, apiVars>>
    \/ \E c \in Callers : Settle(c) /\ UNCHANGED <<detVars, stateVars, bookVars, apiVars>>

\* the paper trading engine, called from two threads
SpecCallers == InitEngine /\ [][NextCallers]_vars

InitState ==
    /\ DetectorInit
    /\ EngineInit(DefaultEngine)
    /\ \E s \in Subjects : StateInit(s)
    /\ BookInit(DefaultBook)
    /\ ApiInit

NextState ==
    \/ \E token_id \in StateTokens, bid \in StateQuotes, ask \in StateQuotes :
           UpdatePrice(token_id, bid, ask) /\ UNCHANGED <<detVars, engVars, bookVars, apiVars>>
    \/ \E min_profit \in MinProfits : CheckUnderpriced(min_profit) /\ UNCHANGED <<detVars, engVars, bookVars, apiVars>>
    \/ \E min_profit \in MinProfits : CheckOverpriced(min_profit) /\ UNCHANGED <<detVars, engVars, bookVars, apiVars>>

\* a MarketState or a NegRiskEventState, driven by calls of its methods
SpecState == InitState /\ [][NextState]_vars

NextRegistry ==
    \/ \E l \in RelistedMarkets :
           RegisterBinaryMarket(l) /\ UNCHANGED <<engVars, stateVars, bookVars, apiVars>>
    \/ \E l \in RelistedEvents :
           RegisterNegriskEvent(l) /\ UNCHANGED <<engVars, stateVars, bookVars, apiVars>>
    \/ \E message \in RelistedTicks :
           ProcessMessage(message) /\ UNCHANGED <<engVars, stateVars, bookVars, apiVars>>

\* the detector, driven by registrations that come again and by ticks
SpecRegistry == Init /\ [][NextRegistry]_vars

InitBook ==
    /\ DetectorInit
    /\ EngineInit(DefaultEngine)
    /\ StateInit(DefaultSubject)
    /\ \E b \in OrderBooks : BookInit(b)
    /\ ApiInit

NextBook ==
    \E side \in Sides, size \in OrderSizes :
        ExecutablePrice(side, size) /\ UNCHANGED <<detVars, engVars, stateVars, apiVars>>

\* an order book, asked for executable prices
SpecBook == InitBook /\ [][NextBook]_vars

NextFeed ==
    \/ \E ok \in BOOLEAN : Connect(ok) /\ UNCHANGED <<detVars, engVars, stateVars, bookVars, clob, analysis>>
    \/ Close /\ UNCHANGED <<detVars, engVars, stateVars, bookVars, clob, analysis>>
    \/ \E token_ids \in TokenLists : Subscribe(token_ids) /\ UNCHANGED <<detVars, engVars, stateVars, bookVars, clob, analysis>>
    \/ \E token_ids \in TokenLists : Unsubscribe(token_ids) /\ UNCHANGED <<detVars, engVars, stateVars, bookVars, clob, analysis>>
    \/ \E token_ids \in TokenLists : AddSubscription(token_ids) /\ UNCHANGED <<detVars, engVars, stateVars, bookVars, clob, analysis>>
    \/ Listen /\ UNCHANGED <<detVars, engVars, stateVars, bookVars, clob, analysis>>
    \/ ConnectSucceeds /\ UNCHANGED <<detVars, engVars, stateVars, bookVars, clob, analysis>>
    \/ \E kind \in ConnectErrors : ConnectFails(kind) /\ UNCHANGED <<detVars, engVars, stateVars, bookVars, clob, analysis>>
    \/ SubscribeSent /\ UNCHANGED <<detVars, engVars, stateVars, bookVars, clob, analysis>>
    \/ SubscribeFails /\ UNCHANGED <<detVars, engVars, stateVars, bookVars, clob, analysis>>
    \/ Receive /\ UNCHANGED <<detVars, engVars, stateVars, bookVars, clob, analysis>>
    \/ Resume /\ UNCHANGED <<detVars, engVars, stateVars, bookVars, clob, analysis>>
    \/ ReceiveTimeout /\ UNCHANGED <<detVars, engVars, stateVars, bookVars, clob, analysis>>
    \/ ReceiveGarbage /\ UNCHANGED <<detVars, engVars, stateVars, bookVars, clob, analysis>>
    \/ ConnectionLost /\ UNCHANGED <<detVars, engVars, stateVars, bookVars, clob, analysis>>
    \/ BackoffOver /\ UNCHANGED <<detVars, engVars, stateVars, bookVars, clob, analysis>>
    \/ PauseOver /\ UNCHANGED <<detVars, engVars, stateVars, bookVars, clob, analysis>>

\* the feed client, its listen() and the calls of its user
SpecFeed == Init /\ [][NextFeed]_vars

\* the steps listen() takes by itself: its sleeps end, its consumer asks for
\* the next message, and the network answers a connect, a send and a recv
ListenStep ==
    \/ ConnectSucceeds
    \/ \E kind \in ConnectErrors : ConnectFails(kind)
    \/ SubscribeSent
    \/ SubscribeFails
    \/ Receive
    \/ Resume
    \/ ReceiveTimeout
    \/ ReceiveGarbage
    \/ ConnectionLost
    \/ BackoffOver
    \/ PauseOver

\* the feed client on a network on which listen() keeps being scheduled and a
\* connect that keeps being tried succeeds in the end
SpecFeedFair ==
    /\ SpecFeed
    /\ WF_vars(ListenStep /\ UNCHANGED <<detVars, engVars, stateVars, bookVars, clob, analysis>>)
    /\ SF_vars(ConnectSucceeds /\ UNCHANGED <<detVars, engVars, stateVars, bookVars, clob, analysis>>)

NextClob ==
    \/ \E token_ids \in BatchTokens :
           GetPricesBatch(token_ids) /\ UNCHANGED <<detVars, engVars, stateVars, bookVars, feed, analysis>>
    \/ \E token_ids \in BatchTokens :
           GetOrderBooksBatch(token_ids) /\ UNCHANGED <<detVars, engVars, stateVars, bookVars, feed, analysis>>
    \/ \E b \in Batches, i \in 1..MaxBatch :
           Acquire(b, i) /\ UNCHANGED <<detVars, engVars, stateVars, bookVars, feed, analysis>>
    \/ \E b \in Batches, i \in 1..MaxBatch, outcome \in Responses :
           Respond(b, i, outcome) /\ UNCHANGED <<detVars, engVars, stateVars, bookVars, feed, analysis>>
    \/ \E b \in Batches : ReturnBatch(b) /\ UNCHANGED <<detVars, engVars, stateVars, bookVars, feed, analysis>>

\* the CLOB client with a batch of prices and a batch of order books in progress
SpecClob == Init /\ [][NextClob]_vars

\* a coroutine that waits for a slot is resumed when one is free, every HTTP
\* request ends (the session carries ClientTimeout(total=10)), and gather
\* resumes the batch when its coroutines are done
FairClob ==
    \A b \in Batches, i \in 1..MaxBatch :
        /\ WF_vars(Acquire(b, i) /\ UNCHANGED <<detVars, engVars, stateVars, bookVars, feed, analysis>>)
        /\ WF_vars(\E outcome \in Responses :
                       Respond(b, i, outcome) /\ UNCHANGED <<detVars, engVars, stateVars, bookVars, feed, analysis>>)
        /\ WF_vars(ReturnBatch(b) /\ UNCHANGED <<detVars, engVars, stateVars, bookVars, feed, analysis>>)

\* the CLOB client, every request of which ends
SpecClobFair == SpecClob /\ FairClob

InitStrategy ==
    /\ DetectorInit
    /\ EngineInit(DefaultEngine)
    /\ StateInit(DefaultSubject)
    /\ BookInit(DefaultBook)
    /\ FeedInit
    /\ ClobInit
    /\ \E a \in Analyses : AnalysisInit(a)

NextStrategy == Analyze /\ UNCHANGED <<detVars, engVars, stateVars, bookVars, feed, clob>>

\* the binary strategy, asked to analyze one market
SpecStrategy == InitStrategy /\ [][NextStrategy]_vars



-----------------------------------------------------------------------------
(* Properties of the detector, checked under Spec *)

RECURSIVE UnseenCandidates(_, _)
\* the opportunities the state checks produced for the ticks log[i..] whose
\* key was not in the seen set, in order
UnseenCandidates(log, i) ==
    IF i > Len(log) THEN <<>>
    ELSE SelectSeq(log[i].cands, LAMBDA o : OppKey(o) \notin log[i].seenBefore)
         \o UnseenCandidates(log, i + 1)

\* C1: a process_message call returns, and passes to on_opportunity, exactly
\* the opportunities of its state checks whose key (type, subject id,
\* profit_percent rounded to one decimal) was not yet in the seen set, and no
\* key is returned twice without a clear_seen in between.
C1_ReturnedIffUnseen ==
    /\ lastCall.op = "process_message" =>
          /\ ret = UnseenCandidates(tickLog, 1)
          /\ on_opportunity => notified = UnseenCandidates(tickLog, 1)
    /\ ~returnedTwice

Malformed(item) ==
    \/ ~item.isDict
    \/ item.asset_id.k # "str"
    \/ item.price.k = "bad" \/ item.best_bid.k = "bad" \/ item.best_ask.k = "bad"
    \/ item.bids.k \in {"notlist", "bad", "elemnotdict"}
    \/ item.asks.k \in {"notlist", "bad", "elemnotdict"}

\* C5: for every malformed tick, process_message does not raise and the tick
\* contributes no opportunity, whatever the detector's state.
C5_MalformedTickSwallowed ==
    \A i \in 1..Len(tickLog) :
        Malformed(tickLog[i].item) =>
            /\ tickLog[i].raises = "none"
            /\ tickLog[i].out = <<>>

\* C10: a registration with liquidity below the minimum leaves both
\* registries and both token indices unchanged; with liquidity equal to or
\* above it the state is in its registry and each of its token ids is
\* indexed to it.
C10_RegistrationThreshold ==
    [][ /\ lastCall'.op = "register_binary_market" =>
              IF lastCall'.arg.liquidity < MinLiquidity
              THEN UNCHANGED <<binary_markets, negrisk_events, token_to_market, token_to_event>>
              ELSE /\ lastCall'.arg.market_id \in DOMAIN binary_markets'
                   /\ \A f \in DOMAIN lastCall'.arg :
                          binary_markets'[lastCall'.arg.market_id][f] = lastCall'.arg[f]
                   /\ \A t \in {lastCall'.arg.yes_token_id, lastCall'.arg.no_token_id} :
                          /\ t \in DOMAIN token_to_market'
                          /\ token_to_market'[t] = lastCall'.arg.market_id
        /\ lastCall'.op = "register_negrisk_event" =>
              IF lastCall'.arg.total_liquidity < MinLiquidity
              THEN UNCHANGED <<binary_markets, negrisk_events, token_to_market, token_to_event>>
              ELSE /\ lastCall'.arg.event_id \in DOMAIN negrisk_events'
                   /\ negrisk_events'[lastCall'.arg.event_id].event_id = lastCall'.arg.event_id
                   /\ \A i \in 1..Len(lastCall'.arg.markets) :
                          /\ lastCall'.arg.markets[i].yes_token_id \in DOMAIN token_to_event'
                          /\ token_to_event'[lastCall'.arg.markets[i].yes_token_id]
                                 = lastCall'.arg.event_id
      ]_vars

\* a binary market was just registered with liquidity exactly at the minimum,
\* on top of an event that was registered at the minimum before
C10_RegisteredAtMinimum ==
    /\ lastCall.op = "register_binary_market"
    /\ lastCall.arg.liquidity = MinLiquidity
    /\ lastCall.arg.market_id \in DOMAIN binary_markets
    /\ \E e \in DOMAIN negrisk_events : negrisk_events[e].total_liquidity = MinLiquidity

\* a caller's list after one more process_message(item): a call that raises
\* returns nothing
Sequel(acc, o) ==
    [d |-> o.d,
     opportunities |-> acc.opportunities \o (IF o.raises = "none" THEN o.out ELSE <<>>)]

RECURSIVE OneAtATime(_, _, _)
\* process_message(items[i]), ..., process_message(items[n]), each a call of
\* its own, with the returned lists concatenated
OneAtATime(acc, items, i) ==
    IF i > Len(items) THEN acc
    ELSE OneAtATime(Sequel(acc, ProcessSingleUpdate(acc.d, items[i])), items, i + 1)

\* the step returned seq.opportunities and left the detector as seq.d
SameAs(seq) ==
    /\ ret' = seq.opportunities
    /\ binary_markets' = seq.d.binary_markets
    /\ negrisk_events' = seq.d.negrisk_events
    /\ seen_opportunities' = seq.d.seen_opportunities
    /\ opportunities_found' = seq.d.opportunities_found

\* C17: process_message on a batch [t1..tn] processes the ticks in order and
\* returns the concatenation of the per-tick results: the returned list and
\* the resulting market states, event states, seen set and
\* opportunities_found are those of process_message(t1), ...,
\* process_message(tn) called one at a time in the same order.
C17_BatchIsSequence ==
    [][(lastCall'.op = "process_message" /\ lastCall'.arg.isList) =>
         \A seq \in {OneAtATime([d |-> Detector, opportunities |-> <<>>],
                                lastCall'.arg.items, 1)} : SameAs(seq)]_vars

\* the step is process_message of a single tick for a token of a registered
\* binary market, and no exception escaped
BinaryTickStep ==
    /\ lastCall'.op = "process_message"
    /\ ~lastCall'.arg.isList
    /\ raised' = "none"
    /\ lastCall'.arg.items[1].isDict
    /\ lastCall'.arg.items[1].asset_id.k = "str"
    /\ lastCall'.arg.items[1].asset_id.v \in DOMAIN token_to_market
    /\ token_to_market[lastCall'.arg.items[1].asset_id.v] \in DOMAIN binary_markets

\* opp is an opportunity the seen set does not hold yet
Unseen(opp) == ~IsNone(opp) /\ OppKey(Val(opp)) \notin seen_opportunities

\* the returned list holds u and o as the checks of the market found them:
\* each is returned when unseen, whatever the other check found, and the
\* underpriced one comes first
BothChecksReturned(u, o) ==
    /\ Unseen(u) => \E i \in 1..Len(ret') : ret'[i] = Val(u)
    /\ Unseen(o) => \E i \in 1..Len(ret') : ret'[i] = Val(o)
    /\ (Unseen(u) /\ Unseen(o)) => (ret'[1] = Val(u) /\ ret'[2] = Val(o))

\* C22: the two binary checks are independent: a market whose asks sum
\* below 1.0 and whose bids sum above 1.0 is reachable, and one
\* process_message call for that market returns both a BINARY_UNDERPRICED and
\* a BINARY_OVERPRICED opportunity, the underpriced one first, neither
\* suppressing the other.
C22_BothChecksFire ==
    [][BinaryTickStep =>
         \A m \in {binary_markets'[token_to_market[lastCall'.arg.items[1].asset_id.v]]} :
             BothChecksReturned(MarketCheckUnderpriced(m, MinProfitPercent),
                                MarketCheckOverpriced(m, MinProfitPercent))]_vars

\* one tick returned a BINARY_UNDERPRICED and then a BINARY_OVERPRICED
\* opportunity of the same market
C22_BothReturned ==
    /\ lastCall.op = "process_message"
    /\ ~lastCall.arg.isList
    /\ Len(ret) = 2
    /\ ret[1].type = "BINARY_UNDERPRICED"
    /\ ret[2].type = "BINARY_OVERPRICED"
    /\ ret[1].id = ret[2].id
    /\ ret[1].total < Unit
    /\ ret[2].total > Unit

\* the first of the fields, in the order given, that carries a number
FirstNumber(fields, i) ==
    IF \E j \in i..Len(fields) : fields[j].k = "num"
    THEN Some(fields[CHOOSE j \in i..Len(fields) :
                         /\ fields[j].k = "num"
                         /\ \A h \in i..(j - 1) : fields[h].k # "num"].v)
    ELSE None

\* the entry of token t in the dict d, as an optional value
Entry(d, t) == IF t \in DOMAIN d THEN Some(d[t]) ELSE None

\* the quote a MarketState holds for one of its tokens: side is "ask" or "bid"
MarketQuote(m, token_id, side) ==
    IF token_id = m.yes_token_id
    THEN (IF side = "ask" THEN m.yes_ask ELSE m.yes_bid)
    ELSE (IF side = "ask" THEN m.no_ask ELSE m.no_bid)

\* the value the claimed priority selects, if any, is the one in slot
Selected(fields, slot) ==
    ~IsNone(FirstNumber(fields, 1)) => slot = FirstNumber(fields, 1)

\* the step is process_message of a single well-formed tick for the token,
\* and no exception escaped
TickStepFor(token_id) ==
    /\ lastCall'.op = "process_message"
    /\ ~lastCall'.arg.isList
    /\ raised' = "none"
    /\ lastCall'.arg.items[1].isDict
    /\ lastCall'.arg.items[1].asset_id = Str(token_id)

\* the tokens of the ticks
TickTokens == {"y1", "n1", "a", "b", "c", "zz"}

\* C23: the tick parser takes the ask from the recognized fields in the
\* priority order price, best_ask, asks[0].price, and the bid from best_bid,
\* bids[0].price: of several fields with different values the value of the
\* field of higher priority is the one stored.
C23_ParserPriority ==
    [][\A token_id \in TickTokens : TickStepFor(token_id) =>
         \A t \in {lastCall'.arg.items[1]} :
             /\ (token_id \in DOMAIN token_to_market
                 /\ token_to_market[token_id] \in DOMAIN binary_markets) =>
                   \A m \in {binary_markets'[token_to_market[token_id]]} :
                       /\ Selected(<<t.price, t.best_ask, t.asks>>,
                                   MarketQuote(m, token_id, "ask"))
                       /\ Selected(<<t.best_bid, t.bids>>, MarketQuote(m, token_id, "bid"))
             /\ (token_id \in DOMAIN token_to_event
                 /\ token_to_event[token_id] \in DOMAIN negrisk_events) =>
                   \A e \in {negrisk_events'[token_to_event[token_id]]} :
                       /\ Selected(<<t.price, t.best_ask, t.asks>>,
                                   Entry(e.yes_prices, token_id))
                       /\ Selected(<<t.best_bid, t.bids>>, Entry(e.yes_bids, token_id))]_vars

\* the step is process_message of a single tick, whatever became of it
SingleTickStep == lastCall'.op = "process_message" /\ ~lastCall'.arg.isList

\* the tick t carries a number for the side
Carries(t, side) ==
    IF side = "ask" THEN ~IsNone(FirstNumber(<<t.price, t.best_ask, t.asks>>, 1))
    ELSE ~IsNone(FirstNumber(<<t.best_bid, t.bids>>, 1))

QuoteSides == {"ask", "bid"}

\* the quote an event holds for a token on a side
EventQuote(e, token_id, side) ==
    IF side = "ask" THEN Entry(e.yes_prices, token_id) ELSE Entry(e.yes_bids, token_id)

\* the tick t for token_id left every quote as it was that is not a quote,
\* on a side the tick carries, of token_id in the state token_id is indexed to
QuotesKept(t, token_id) ==
    /\ \A id \in DOMAIN binary_markets :
           /\ id \in DOMAIN binary_markets'
           /\ \A x \in {binary_markets[id].yes_token_id, binary_markets[id].no_token_id},
                 side \in QuoteSides :
                  MarketQuote(binary_markets'[id], x, side)
                      # MarketQuote(binary_markets[id], x, side)
                  => /\ Entry(token_to_market, token_id) = Some(id)
                     /\ x = token_id
                     /\ Carries(t, side)
    /\ \A id \in DOMAIN negrisk_events :
           /\ id \in DOMAIN negrisk_events'
           /\ \A x \in TickTokens, side \in QuoteSides :
                  EventQuote(negrisk_events'[id], x, side)
                      # EventQuote(negrisk_events[id], x, side)
                  => /\ Entry(token_to_event, token_id) = Some(id)
                     /\ x = token_id
                     /\ Carries(t, side)

\* the token is in neither index
Unindexed(token_id) ==
    token_id \notin DOMAIN token_to_market /\ token_id \notin DOMAIN token_to_event

\* a tick for a token left every quote of every other state, token and side
\* as it was
C27_QuotesPersist ==
    [][SingleTickStep =>
         \A t \in {lastCall'.arg.items[1]} :
             (t.isDict /\ t.asset_id.k = "str") => QuotesKept(t, t.asset_id.v)]_vars

\* C27: a tick for token t changes only the state or states t is indexed to,
\* and there only t's quote on a side the tick carries; every other quote of
\* every registered state persists.  A tick for a token in no index changes
\* no state and returns an empty list.
C27_TickFrame ==
    [][SingleTickStep =>
         \A t \in {lastCall'.arg.items[1]} :
             (t.isDict /\ t.asset_id.k = "str") =>
                 /\ QuotesKept(t, t.asset_id.v)
                 /\ Unindexed(t.asset_id.v) =>
                        /\ raised' = "none"
                        /\ ret' = <<>>
                        /\ UNCHANGED <<binary_markets, negrisk_events>>]_vars

\* C29: opportunities_found grows with every process_message call by the
\* number of opportunities the call returns, which is the number of
\* on_opportunity invocations when a callback is registered; no other call
\* changes it, clear_seen included, and it never decreases.
\* messages_processed grows by one with every process_message call, a batch
\* counting once, and with no other call.
C29_CountersMatchReturns ==
    [][/\ lastCall'.op = "process_message" =>
              /\ messages_processed' = messages_processed + 1
              /\ opportunities_found' = opportunities_found + Len(ret')
              /\ on_opportunity => Len(notified') = Len(ret')
       /\ lastCall'.op # "process_message" =>
              UNCHANGED <<opportunities_found, messages_processed>>
       /\ opportunities_found' >= opportunities_found]_vars

\* the same with the opportunities the ticks of the call produced in place
\* of those the call returned
C29_CountersMatchTicks ==
    [][/\ lastCall'.op = "process_message" =>
              /\ messages_processed' = messages_processed + 1
              /\ opportunities_found' = opportunities_found + LogCount(tickLog', 1)
              /\ on_opportunity => Len(notified') = LogCount(tickLog', 1)
       /\ lastCall'.op # "process_message" =>
              UNCHANGED <<opportunities_found, messages_processed>>
       /\ opportunities_found' >= opportunities_found]_vars

-----------------------------------------------------------------------------
(* Properties of the registries, checked under SpecRegistry *)

\* the yes-tokens of the outcomes registered for the event e
OutcomeTokens(e) == {e.markets[m] : m \in DOMAIN e.markets}

\* the opportunity covers every outcome registered for its event
CoversAllOutcomes(opp, e) ==
    /\ OutcomeTokens(e) \subseteq DOMAIN e.yes_prices
    /\ opp.num_outcomes = Cardinality(DOMAIN e.markets)

\* C28: whenever process_message returns a NEGRISK_UNDERPRICED opportunity,
\* every outcome registered for that event has a tracked yes-ask and
\* num_outcomes is the number of registered outcomes.
C28_AllOutcomesPriced ==
    [][lastCall'.op = "process_message" =>
         \A i \in 1..Len(ret') :
             ret'[i].type = "NEGRISK_UNDERPRICED" =>
                 /\ ret'[i].id \in DOMAIN negrisk_events'
                 /\ CoversAllOutcomes(ret'[i], negrisk_events'[ret'[i].id])]_vars

\* C30: every entry of the token-to-market index names a registered
\* MarketState whose YES or NO token is that token, and every entry of the
\* token-to-event index names a registered NegRiskEventState that has the
\* token as the yes-token of an outcome.
C30_IndicesConsistent ==
    /\ \A t \in DOMAIN token_to_market :
           /\ token_to_market[t] \in DOMAIN binary_markets
           /\ t \in {binary_markets[token_to_market[t]].yes_token_id,
                     binary_markets[token_to_market[t]].no_token_id}
    /\ \A t \in DOMAIN token_to_event :
           /\ token_to_event[t] \in DOMAIN negrisk_events
           /\ t \in OutcomeTokens(negrisk_events[token_to_event[t]])

\* registered states are never removed
C30_NeverRemoved ==
    [][/\ DOMAIN binary_markets \subseteq DOMAIN binary_markets'
       /\ DOMAIN negrisk_events \subseteq DOMAIN negrisk_events']_vars

-----------------------------------------------------------------------------
(* Properties of the engine, checked under SpecEngine *)

\* the type tags that contain UNDERPRICED, and those that contain OVERPRICED
UnderpricedTypes == {"BINARY_UNDERPRICED", "NEGRISK_UNDERPRICED"}

OverpricedTypes == {"BINARY_OVERPRICED", "NEGRISK_OVERPRICED"}

\* min(position size, liquidity * cap fraction), in cents
CappedSize(opp) == Min(position_size, Get(opp.liquidity, 0) * liquidity_cap_pct)

\* size * total_cost (0.97 when absent) for UNDERPRICED, size for OVERPRICED
StatedCost(opp, size) ==
    IF opp.type \in UnderpricedTypes
    THEN size * (IF IsNone(opp.total_cost) THEN DefaultTotalCost ELSE Val(opp.total_cost))
    ELSE size * Unit

\* size for UNDERPRICED, size * total_value (1.03 when absent) for OVERPRICED
StatedReturn(opp, size) ==
    IF opp.type \in UnderpricedTypes THEN size * Unit
    ELSE size * (IF IsNone(opp.total_value) THEN DefaultTotalValue ELSE Val(opp.total_value))

\* C3: after a call that returns true the balance is the balance before
\* minus cost plus return, and the recorded profit is return minus cost,
\* with cost and return as the opportunity's type and totals give them.
C3_BalanceConservation ==
    [][ lastExec'.result = "true" =>
            /\ Len(positions') = Len(positions) + 1
            /\ balance' = (balance - StatedCost(lastExec'.opp, positions'[Len(positions')].size))
                          + StatedReturn(lastExec'.opp, positions'[Len(positions')].size)
            /\ positions'[Len(positions')].expected_profit
                   = StatedReturn(lastExec'.opp, positions'[Len(positions')].size)
                     - StatedCost(lastExec'.opp, positions'[Len(positions')].size)
            /\ positions'[Len(positions')].actual_profit
                   = Some(positions'[Len(positions')].expected_profit)
      ]_vars

\* an overpriced opportunity without total_value was executed
C3_ExecutedWithDefault ==
    /\ lastExec.result = "true"
    /\ lastExec.opp.type \in OverpricedTypes
    /\ IsNone(lastExec.opp.total_value)
    /\ balance > initial_balance

\* C4: a call that reaches the balance check with a cost above the balance
\* returns false, leaves the balance unchanged, records no position and no
\* trade and increments skipped by one; with a cost equal to the balance it
\* is executed in full.
C4_BalanceCheck ==
    [][ (/\ Get(lastExec'.opp.liquidity, 0) > 0
         /\ lastExec'.opp.type \in UnderpricedTypes \cup OverpricedTypes
         /\ ~SimulatedFailure(lastExec'.draw)) =>
            /\ StatedCost(lastExec'.opp, CappedSize(lastExec'.opp)) > balance =>
                  /\ lastExec'.result = "false"
                  /\ UNCHANGED <<balance, positions, trades>>
                  /\ opportunities_skipped' = opportunities_skipped + 1
            /\ StatedCost(lastExec'.opp, CappedSize(lastExec'.opp)) = balance =>
                  /\ lastExec'.result = "true"
                  /\ Len(positions') = Len(positions) + 1
                  /\ positions'[Len(positions')].size = CappedSize(lastExec'.opp)
      ]_vars

C8_CounterPartition ==
    opportunities_seen
        = opportunities_executed + opportunities_skipped + opportunities_failed

\* C9: a call for an opportunity with liquidity at or below zero, or with a
\* type that is neither UNDERPRICED nor OVERPRICED, returns false, increments
\* skipped by one and leaves balance, positions, trades and the session
\* totals unchanged.
C9_RejectionFrame ==
    [][ (/\ lastExec'.result # "none"
         /\ \/ Get(lastExec'.opp.liquidity, 0) <= 0
            \/ lastExec'.opp.type \notin UnderpricedTypes \cup OverpricedTypes) =>
            /\ lastExec'.result = "false"
            /\ opportunities_skipped' = opportunities_skipped + 1
            /\ UNCHANGED <<balance, positions, trades, session>>
      ]_vars

\* an opportunity of an unrecognized type with liquidity was just rejected
\* by an engine that had traded before
C9_RejectedAfterTrade ==
    /\ lastExec.result = "false"
    /\ lastExec.opp.type \notin UnderpricedTypes \cup OverpricedTypes
    /\ Get(lastExec.opp.liquidity, 0) > 0
    /\ session.total_trades > 0

\* the three callbacks of an executed trade, in the order of their invocation
TradeCallbacks == <<"on_trade", "on_position_open", "on_position_close">>

\* the names of a sequence of callback invocations
Names(cs) == [i \in 1..Len(cs) |-> cs[i].name]

\* C18: on every execute_opportunity call that returns true the registered
\* callbacks fire in the order on_trade, on_position_open, on_position_close,
\* each exactly once and only after the balance, the position and the trade
\* record are committed; on a call that returns false none of the three fires.
C18_CallbacksAfterCommit ==
    [][ /\ lastExec'.result = "true" =>
              /\ Names(callbacks') = SelectSeq(TradeCallbacks, LAMBDA n : n \in observers)
              /\ Len(positions') = Len(positions) + 1
              /\ Len(trades') = Len(trades) + 1
              /\ \A i \in 1..Len(callbacks') :
                     callbacks'[i].sees = Records(balance', positions', trades')
        /\ lastExec'.result = "false" =>
              \A i \in 1..Len(callbacks') :
                  \A j \in 1..Len(TradeCallbacks) : callbacks'[i].name # TradeCallbacks[j]
      ]_vars

\* a trade was executed by an engine that has the three callbacks
\* registered, and all three were invoked
C18_AllThreeFired ==
    /\ lastExec.result = "true"
    /\ Names(callbacks) = TradeCallbacks

\* C19: in every state reached by execute_opportunity calls every recorded
\* position has status CLOSED and an actual_profit equal to its expected
\* profit, so there are no open positions and the unrealized P&L is zero.
C19_AllPositionsClosed ==
    /\ \A i \in 1..Len(positions) :
           /\ positions[i].status = "closed"
           /\ positions[i].actual_profit = Some(positions[i].expected_profit)
    /\ Len(WithStatus("open")) = 0
    /\ UnrealizedPnl = 0

\* positions with a gain and with a loss are recorded
C19_GainAndLossRecorded ==
    /\ \E i \in 1..Len(positions) : positions[i].expected_profit > 0
    /\ \E i \in 1..Len(positions) : positions[i].expected_profit < 0

RECURSIVE SumOfActualProfits(_, _)
\* actual_profit of the positions ps[i..] added up
SumOfActualProfits(ps, i) ==
    IF i > Len(ps) THEN 0
    ELSE Get(ps[i].actual_profit, 0) + SumOfActualProfits(ps, i + 1)

\* C31: in every state reached by execute_opportunity calls the balance is
\* the initial balance plus the realized P&L, the sum of actual_profit over
\* the recorded positions, and the session's total_pnl is that same sum.
C31_BalanceIsInitialPlusPnl ==
    /\ balance = initial_balance + RealizedPnl
    /\ RealizedPnl = SumOfActualProfits(positions, 1)
    /\ session.total_pnl = RealizedPnl

\* trades with a gain and with a loss are recorded and the balance has moved
C31_GainsAndLossesSummed ==
    /\ \E i \in 1..Len(positions) : Get(positions[i].actual_profit, 0) > 0
    /\ \E i \in 1..Len(positions) : Get(positions[i].actual_profit, 0) < 0
    /\ balance # initial_balance

\* the positions recorded with a profit above zero
Winners == SelectSeq(positions, LAMBDA p : p.expected_profit > 0)

\* the tallies of executed trades agree, and winning_trades is the number
\* of recorded positions with a profit above zero
TalliesAgree ==
    /\ opportunities_executed = Len(trades)
    /\ Len(trades) = session.total_trades
    /\ session.total_trades = Len(positions)
    /\ session.winning_trades = Len(Winners)
    /\ session.winning_trades <= session.total_trades

\* C32: opportunities_executed = number of trade records = session
\* total_trades = number of recorded positions; a call leaves the trade
\* records there were as they were and in place; winning_trades is the
\* number of executed trades with profit > 0, hence at most total_trades.
C32_TalliesAndTradeLog ==
    [][/\ TalliesAgree
       /\ TalliesAgree'
       /\ Len(trades') >= Len(trades)
       /\ SubSeq(trades', 1, Len(trades)) = trades]_vars

\* three calls of which one was skipped, one won and one lost
C32_WonLostSkipped ==
    /\ Len(trades) = 2
    /\ opportunities_skipped >= 1
    /\ session.winning_trades = 1
    /\ session.total_trades = 2

\* an opportunity as the detector emits it: underpriced with total_cost below
\* 1.0, overpriced with total_value above 1.0
DetectorEmitted(opp) ==
    \/ opp.type \in UnderpricedTypes /\ ~IsNone(opp.total_cost) /\ Val(opp.total_cost) < Unit
    \/ opp.type \in OverpricedTypes /\ ~IsNone(opp.total_value) /\ Val(opp.total_value) > Unit

\* every opportunity the engine has executed was detector-emitted; the ones
\* it skipped have left no trace but in the counters
FedByDetector == \A i \in 1..Len(origins) : DetectorEmitted(origins[i])

\* every recorded trade has won, and so the win rate is 1
AllWon ==
    /\ \A i \in 1..Len(positions) : Get(positions[i].actual_profit, 0) > 0
    /\ Len(positions) > 0 => WinRate = <<Len(positions), Len(positions)>>

\* C33: fed only opportunities as the detector emits them, every executed
\* trade has profit > 0, no call lowers the balance, and the win rate is 1 as
\* soon as one trade has executed.
C33_DetectorFedNeverLoses ==
    [][/\ FedByDetector' => AllWon'
       /\ DetectorEmitted(lastExec'.opp) => balance' >= balance]_vars

\* two detector-emitted opportunities, one of each side, were executed
C33_BothSidesWon ==
    /\ Len(positions) >= 2
    /\ FedByDetector
    /\ \E i \in 1..Len(origins) : origins[i].type \in UnderpricedTypes
    /\ \E i \in 1..Len(origins) : origins[i].type \in OverpricedTypes
    /\ WinRate = <<Len(positions), Len(positions)>>

\* total_cost and total_value of the opportunity, where given, are not
\* negative
NonNegativeTotals(opp) ==
    /\ Get(opp.total_cost, 0) >= 0
    /\ Get(opp.total_value, 0) >= 0

\* C34: started with a non-negative balance and fed opportunities with
\* non-negative total_cost and total_value, the engine's balance is
\* non-negative after every call, and the cost of an executed trade was not
\* above the balance it was debited from.
C34_BalanceNeverNegative ==
    [][(initial_balance >= 0 /\ balance >= 0 /\ NonNegativeTotals(lastExec'.opp)) =>
           /\ balance' >= 0
           /\ lastExec'.result = "true" =>
                  positions'[Len(positions')].entry_cost <= balance]_vars

\* a trade was executed at a cost equal to the whole balance, and a later
\* one that lost left the balance short of the next cost
C34_DebitedToZero ==
    /\ lastExec.result = "false" /\ lastExec.why = "balance"
    /\ Len(positions) >= 1
    /\ positions[1].entry_cost = initial_balance
    /\ balance >= 0

-----------------------------------------------------------------------------
(* Properties of the engine's status and summary, checked under SpecReport *)

\* C20: get_status() and get_summary() have no side effects: a call of
\* either, at any point of a run, leaves the balance, the positions, the
\* trades, the counters and the session record (end time, final balance,
\* total pnl) as they were before the call.
C20_SnapshotsReadOnly ==
    [][ ~IsNone(report') =>
            UNCHANGED <<balance, positions, trades, opportunities_seen,
                        opportunities_executed, opportunities_skipped,
                        opportunities_failed, session>>
      ]_vars

-----------------------------------------------------------------------------
(* Properties of the price states, checked under SpecState *)

\* the last call was op on a price state of the given kind
Called(kind, op) == subject.kind = kind /\ stateCall.op = op

\* both optional prices are present and strictly positive
BothPositive(p, q) == ~IsNone(p) /\ ~IsNone(q) /\ Val(p) > 0 /\ Val(q) > 0

\* the returned record r has the type, the total and the profit, and its
\* profit_percent is the fraction num / den
Reports(r, type, total, profit, num, den) ==
    /\ r.type = type
    /\ r.total = total
    /\ r.profit = profit
    /\ r.profit_percent[1] * den = num * r.profit_percent[2]

\* C11: MarketState.check_underpriced(min) returns an opportunity exactly
\* when yes_ask and no_ask are both present and strictly positive, their sum
\* is below 1.0 (a sum of exactly 1.0 yields none) and
\* (1 - sum) / sum * 100 >= min; the record has type BINARY_UNDERPRICED,
\* total_cost = sum, profit = 1 - sum and that profit_percent.
C11_MarketUnderpriced ==
    Called("market", "check_underpriced") =>
        LET s == subject.state
            min == stateCall.args.min_profit
            sum == Val(s.yes_ask) + Val(s.no_ask)
            due == /\ BothPositive(s.yes_ask, s.no_ask)
                   /\ sum < Unit
                   /\ (Unit - sum) * 100 >= min * sum
        IN  /\ ~IsNone(stateCall.result) <=> due
            /\ due => Reports(Val(stateCall.result), "BINARY_UNDERPRICED", sum, Unit - sum,
                              (Unit - sum) * 100, sum)

\* check_underpriced returned an opportunity whose profit_percent is exactly
\* the positive minimum asked for
C11_UnderpricedAtMinimum ==
    /\ Called("market", "check_underpriced")
    /\ ~IsNone(stateCall.result)
    /\ stateCall.args.min_profit > 0
    /\ Val(stateCall.result).profit_percent[1]
         = stateCall.args.min_profit * Val(stateCall.result).profit_percent[2]

\* C12: MarketState.check_overpriced(min) returns an opportunity exactly when
\* yes_bid and no_bid are both present and strictly positive, their sum is
\* above 1.0 (a sum of exactly 1.0 yields none) and (sum - 1.0) * 100 >= min,
\* the percentage being taken on a cost of 1.00; the record has type
\* BINARY_OVERPRICED and total_value = sum.
C12_MarketOverpriced ==
    Called("market", "check_overpriced") =>
        LET s == subject.state
            min == stateCall.args.min_profit
            sum == Val(s.yes_bid) + Val(s.no_bid)
            due == /\ BothPositive(s.yes_bid, s.no_bid)
                   /\ sum > Unit
                   /\ (sum - Unit) * 100 >= min * Unit
        IN  /\ ~IsNone(stateCall.result) <=> due
            /\ due => Reports(Val(stateCall.result), "BINARY_OVERPRICED", sum, sum - Unit,
                              (sum - Unit) * 100, Unit)

\* check_overpriced returned an opportunity whose profit_percent is exactly
\* the positive minimum asked for
C12_OverpricedAtMinimum ==
    /\ Called("market", "check_overpriced")
    /\ ~IsNone(stateCall.result)
    /\ stateCall.args.min_profit > 0
    /\ Val(stateCall.result).profit_percent[1]
         = stateCall.args.min_profit * Val(stateCall.result).profit_percent[2]

\* C13: NegRiskEventState.check_underpriced(min) returns an opportunity
\* exactly when at least 3 yes-asks are tracked, their sum total_cost lies
\* strictly between 0.1 and 1.0 and (1 - total_cost) / total_cost * 100 >= min;
\* the record has type NEGRISK_UNDERPRICED, profit = 1 - total_cost and
\* num_outcomes = the number of tracked asks.
C13_EventUnderpriced ==
    Called("event", "check_underpriced") =>
        LET s == subject.state
            min == stateCall.args.min_profit
            tracked == Cardinality(DOMAIN s.yes_prices)
            total_cost == SumValues(s.yes_prices)
            due == /\ tracked >= 3
                   /\ 10 * total_cost > Unit
                   /\ total_cost < Unit
                   /\ (Unit - total_cost) * 100 >= min * total_cost
        IN  /\ ~IsNone(stateCall.result) <=> due
            /\ due => /\ Reports(Val(stateCall.result), "NEGRISK_UNDERPRICED", total_cost,
                                  Unit - total_cost, (Unit - total_cost) * 100, total_cost)
                      /\ Val(stateCall.result).num_outcomes = tracked

\* the event's check_underpriced returned an opportunity over three tracked
\* asks whose profit_percent is exactly the positive minimum asked for
C13_EventUnderpricedAtMinimum ==
    /\ Called("event", "check_underpriced")
    /\ ~IsNone(stateCall.result)
    /\ stateCall.args.min_profit > 0
    /\ Val(stateCall.result).num_outcomes = 3
    /\ Val(stateCall.result).profit_percent[1]
         = stateCall.args.min_profit * Val(stateCall.result).profit_percent[2]

\* the tracked yes-asks that are strictly positive
ValidAsks(s) == {t \in DOMAIN s.yes_prices : s.yes_prices[t] > 0}

\* C14: for a NegRisk event with fewer than 3 valid yes-ask entries (present
\* and strictly positive), check_underpriced returns none whatever the sum,
\* also when further tracked entries hold zero or negative prices.
C14_FewerThanThreeValid ==
    (Called("event", "check_underpriced") /\ Cardinality(ValidAsks(subject.state)) < 3)
        => IsNone(stateCall.result)

\* C15: NegRiskEventState.check_overpriced(min) returns an opportunity exactly
\* when at least 3 yes-bids are tracked, their sum total_value is above 1.0
\* and (total_value - 1.0) * 100 >= min, the percentage being taken on a flat
\* cost of 1.00; the record has type NEGRISK_OVERPRICED and
\* profit = total_value - 1.0.
C15_EventOverpriced ==
    Called("event", "check_overpriced") =>
        LET s == subject.state
            min == stateCall.args.min_profit
            total_value == SumValues(s.yes_bids)
            due == /\ Cardinality(DOMAIN s.yes_bids) >= 3
                   /\ total_value > Unit
                   /\ (total_value - Unit) * 100 >= min * Unit
        IN  /\ ~IsNone(stateCall.result) <=> due
            /\ due => Reports(Val(stateCall.result), "NEGRISK_OVERPRICED", total_value,
                              total_value - Unit, (total_value - Unit) * 100, Unit)

\* the event's check_overpriced returned an opportunity whose profit_percent
\* is exactly the positive minimum asked for
C15_EventOverpricedAtMinimum ==
    /\ Called("event", "check_overpriced")
    /\ ~IsNone(stateCall.result)
    /\ stateCall.args.min_profit > 0
    /\ Val(stateCall.result).profit_percent[1]
         = stateCall.args.min_profit * Val(stateCall.result).profit_percent[2]

\* the value of an optional slot after an update that provides v or nothing
Replaced(old, v) == IF IsNone(v) THEN old ELSE v

\* the quotes of a MarketState after update_price(token_id, bid, ask) on s
MarketQuotesReplaced(s, t, token_id, bid, ask) ==
    /\ t.yes_bid = IF token_id = s.yes_token_id THEN Replaced(s.yes_bid, bid) ELSE s.yes_bid
    /\ t.yes_ask = IF token_id = s.yes_token_id THEN Replaced(s.yes_ask, ask) ELSE s.yes_ask
    /\ t.no_bid = IF token_id = s.no_token_id THEN Replaced(s.no_bid, bid) ELSE s.no_bid
    /\ t.no_ask = IF token_id = s.no_token_id THEN Replaced(s.no_ask, ask) ELSE s.no_ask

\* the quotes of a NegRiskEventState after update_price(token_id, bid, ask) on s
EventQuotesReplaced(s, t, token_id, bid, ask) ==
    \A x \in DOMAIN s.yes_prices \cup DOMAIN s.yes_bids
             \cup DOMAIN t.yes_prices \cup DOMAIN t.yes_bids :
        /\ Entry(t.yes_prices, x) = IF x = token_id THEN Replaced(Entry(s.yes_prices, x), ask)
                                    ELSE Entry(s.yes_prices, x)
        /\ Entry(t.yes_bids, x) = IF x = token_id THEN Replaced(Entry(s.yes_bids, x), bid)
                                  ELSE Entry(s.yes_bids, x)

\* token_id is neither token of the market, or is unknown to the event
Foreign(token_id) ==
    IF subject.kind = "market"
    THEN token_id \notin {subject.state.yes_token_id, subject.state.no_token_id}
    ELSE /\ token_id \notin DOMAIN subject.state.yes_prices
         /\ \A m \in DOMAIN subject.state.markets : subject.state.markets[m] # token_id

\* C16: update_price(token_id, bid, ask) on a MarketState or a
\* NegRiskEventState replaces only the provided fields of the slot that
\* matches token_id (an absent bid or ask leaves the prior value, the other
\* token's quotes are not touched), and leaves the whole state unchanged when
\* token_id is foreign to the state.
C16_UpdatePriceFrame ==
    [][stateCall'.op = "update_price" =>
         LET a == stateCall'.args
         IN  IF Foreign(a.token_id) THEN subject' = subject
             ELSE /\ subject'.kind = subject.kind
                  /\ IF subject.kind = "market"
                     THEN MarketQuotesReplaced(subject.state, subject'.state,
                                               a.token_id, a.bid, a.ask)
                     ELSE /\ EventQuotesReplaced(subject.state, subject'.state,
                                                 a.token_id, a.bid, a.ask)
                          /\ subject'.state.markets = subject.state.markets]_vars

\* the names of the two checks
Checks == {"check_underpriced", "check_overpriced"}

-----------------------------------------------------------------------------
(* Properties of the engine called from two threads, checked under SpecCallers *)

\* the balance, the counters and the trade log of an engine, side by side
Ledger(b, seen, executed, skipped, failed, t) ==
    [balance |-> b, seen |-> seen, executed |-> executed, skipped |-> skipped,
     failed |-> failed, trades |-> t]

\* the outcome o after one whole call of execute_opportunity
AfterCall(o, call) ==
    LET size == CalculateSize(call.opp)
        cost == Cost(call.opp, size)
        skip == [o EXCEPT !.seen = @ + 1, !.skipped = @ + 1]
    IN  IF size <= 0 THEN skip
        ELSE IF ~HasUnderpriced(call.opp.type) /\ ~HasOverpriced(call.opp.type) THEN skip
        ELSE IF SimulatedFailure(call.draw) THEN [skip EXCEPT !.failed = @ + 1]
        ELSE IF cost > o.balance THEN skip
        ELSE IF cost = 0 THEN [o EXCEPT !.seen = @ + 1]
        ELSE [o EXCEPT !.seen = @ + 1,
                       !.executed = @ + 1,
                       !.balance = (@ - cost) + ExpectedReturn(call.opp, size),
                       !.trades = Append(@, TradeRecord(Len(@) + 1, call.opp, size, cost))]

RECURSIVE SerialRun(_, _, _)
\* the outcome o after the calls cs made one after the other in the given order
SerialRun(o, cs, order) ==
    IF order = <<>> THEN o
    ELSE SerialRun(AfterCall(o, cs[Head(order)]), cs, Tail(order))

\* the orders in which n calls can be made
Orders(n) == {order \in [1..n -> 1..n] : \A i, j \in 1..n : order[i] = order[j] => i = j}

\* no caller is inside execute_opportunity
Quiescent == \A c \in Callers : inflight[c] = Idle

\* the engine as it stands
Observed ==
    Ledger(balance, opportunities_seen, opportunities_executed, opportunities_skipped,
            opportunities_failed, trades)

\* C24: execute_opportunity is atomic with respect to concurrent callers: once
\* the calls of two callers on one engine have all returned, the balance, the
\* counters and the trade log are those of the same calls made one after the
\* other in some order.
C24_Serializable ==
    Quiescent =>
        \E order \in Orders(Len(calls)) :
            SerialRun(Ledger(initial_balance, 0, 0, 0, 0, <<>>), calls, order) = Observed

-----------------------------------------------------------------------------
(* Properties of the order book, checked under SpecBook *)

RECURSIVE TotalSize(_, _)
\* the sizes of levels[i..] added up
TotalSize(levels, i) ==
    IF i > Len(levels) THEN 0 ELSE levels[i].size + TotalSize(levels, i + 1)

\* what an order of the given size takes from level i: what the levels
\* before it left over, up to the level's size
FillOf(levels, i, size) ==
    LET before == TotalSize(SubSeq(levels, 1, i - 1), 1)
    IN  IF before >= size THEN 0 ELSE Min(size - before, levels[i].size)

RECURSIVE FillCost(_, _, _)
\* the fills of levels[i..] times the level prices, added up
FillCost(levels, i, size) ==
    IF i > Len(levels) THEN 0
    ELSE FillOf(levels, i, size) * levels[i].price + FillCost(levels, i + 1, size)

\* prices that do not fall from one level to the next
Ascending(levels) == \A i \in 1..(Len(levels) - 1) : levels[i].price <= levels[i + 1].price

\* the levels the priced call walked
PricedLevels == IF priced.side = "buy" THEN book.asks ELSE book.bids

\* C25: get_executable_price(side, size) with size > 0 returns None exactly
\* when the sizes of that side's levels add up to less than size; otherwise
\* it returns the fills min(remaining, level size), taken level by level in
\* order, times the level prices, divided by size; for a buy on ascending
\* asks that is never below the best ask.
C25_ExecutablePrice ==
    (priced.op = "get_executable_price" /\ priced.size > 0) =>
        /\ priced.result.raises = "none"
        /\ IsNone(priced.result.value) <=> TotalSize(PricedLevels, 1) < priced.size
        /\ ~IsNone(priced.result.value) =>
               /\ Val(priced.result.value) =
                      <<FillCost(PricedLevels, 1, priced.size), priced.size>>
               /\ (priced.side = "buy" /\ Ascending(book.asks)) =>
                      Val(priced.result.value)[1] >= Val(BestAsk(book)) * priced.size

\* a buy that crosses from the best ask into a dearer level
C25_BuyCrossesLevels ==
    /\ priced.op = "get_executable_price" /\ priced.side = "buy"
    /\ Len(book.asks) >= 2 /\ book.asks[1].price < book.asks[2].price
    /\ book.asks[1].size > 0 /\ priced.size > book.asks[1].size
    /\ ~IsNone(priced.result.value)
    /\ Val(priced.result.value)[1] > Val(BestAsk(book)) * priced.size

-----------------------------------------------------------------------------
(* Properties of the feed client, checked under SpecFeed *)

\* the wait an exponential backoff, capped, puts before the k-th connect in a row
Backoff(k) == Min(InitialReconnectDelay * 2^(k - 1), MaxReconnectDelay)

\* C35 (part): the reconnect delay is always between 1 and 60 seconds
C35_DelayInRange ==
    feed.reconnect_delay \in InitialReconnectDelay..MaxReconnectDelay

\* C35 (part): the reconnect delay goes back to 1 second only in a step in
\* which a connect succeeded
C35_ResetOnlyOnConnect ==
    [][(feed'.reconnect_delay < feed.reconnect_delay)
           => (~feed.ws /\ feed'.ws /\ feed'.reconnect_delay = InitialReconnectDelay)]_vars

\* C35 (observation): the delay is never more than 2 seconds, because only a
\* closed connection doubles it and every connect that precedes one resets it
C35_DoubledOnceAtMost == feed.reconnect_delay <= 2 * InitialReconnectDelay

\* C35 (observation): no wait of listen() is ever longer than 1 second
C35_WaitsOneSecond == feed.wait <= PauseAfterError /\ feed.slept <= PauseAfterError

\* C35: the reconnect delay stays between 1 and 60 seconds, and the wait
\* listen() has slept before its k-th connect in a row since the connection was
\* lost is 1 second doubled k - 1 times, capped at 60 seconds
C35_BackoffDoubles ==
    /\ C35_DelayInRange
    /\ feed.pc = "connecting" => feed.slept = Backoff(feed.attempt)

\* the connection listen() is reading from is one it made itself
Reconnected == feed.ws /\ feed.attempt >= 1 /\ feed.pc \in {"receiving", "yielded"}

\* listen() begins a connect
StartsConnect ==
    /\ feed'.pc = "connecting"
    /\ feed.pc # "connecting" \/ feed'.attempt # feed.attempt

\* C36 (part): on a connection listen() made itself, by the time it reads or
\* yields a message it has sent a subscription for exactly the tokens that
\* were recorded as subscribed when the connection was made, and none when
\* none were recorded
C36_ResubscribedBeforeYield ==
    Reconnected =>
        feed.resent = (IF feed.sending = <<>> THEN None ELSE Some(feed.sending))

\* C36 (part): the subscription listen() sends after a connect names the
\* recorded tokens
C36_SendsRecordedTokens ==
    [][(feed.pc = "connecting" /\ feed'.ws) => feed'.sending = feed.subscribed_tokens]_vars

\* C36 (part): while the client is running and not closed, a lost connection
\* is followed by a connection, or by close()
C36_EventuallyReconnects ==
    (feed.running /\ ~feed.ws /\ feed.pc \in {"backoff", "connecting", "pause"})
        ~> (feed.ws \/ feed.closed)

\* C36: listen() resubscribes to the recorded tokens on every connection it
\* makes before it yields a message from it, and once close() was called it
\* begins no connect
C36_ResubscribesAndStops ==
    [][/\ C36_ResubscribedBeforeYield'
       /\ feed.closed => ~StartsConnect]_vars

-----------------------------------------------------------------------------
(* Properties of the CLOB client, checked under SpecClobFair *)

\* the requests that hold a slot of the semaphore
Holders ==
    {<<b, i>> \in Batches \X (1..MaxBatch) :
        /\ i <= Len(clob.batches[b].tasks)
        /\ clob.batches[b].tasks[i].at = "inflight"}

\* request i of batch b holds a slot
Holds(b, i) == <<b, i>> \in Holders

\* request i of batch b has ended
Ended(b, i) == i <= Len(clob.batches[b].tasks) /\ clob.batches[b].tasks[i].at = "done"

\* the dict batch b returned has an entry for every token asked for, and the
\* entry holds what the request for the token returned, None when it failed
EntryPerToken(b) ==
    LET call == clob.batches[b]
        dict == Val(call.returned)
    IN  ~IsNone(call.returned) =>
            /\ DOMAIN dict = {call.token_ids[i] : i \in 1..Len(call.token_ids)}
            /\ \A i \in 1..Len(call.token_ids) :
                   (\A j \in (i + 1)..Len(call.token_ids) : call.token_ids[j] # call.token_ids[i])
                       => dict[call.token_ids[i]] = call.tasks[i].result
            /\ \A t \in DOMAIN dict : dict[t] \in {None, Some(call.kind)}

\* never more requests hold a slot than the semaphore has, and the free slots
\* are the ones no request holds
SlotsBounded ==
    /\ Cardinality(Holders) <= MaxConcurrent
    /\ clob.value = MaxConcurrent - Cardinality(Holders)
    /\ \A b \in Batches : EntryPerToken(b)

\* C37: at most max_concurrent requests of a client are in flight at a time,
\* every request that holds a slot ends and gives it back, whether it succeeds
\* or fails, and every batch returns a dict with an entry for each token asked
\* for, None for a request that failed
C37_SlotsBoundedAndReleased ==
    /\ []SlotsBounded
    /\ \A b \in Batches, i \in 1..MaxBatch : Holds(b, i) ~> Ended(b, i)
    /\ \A b \in Batches : (clob.batches[b] # NoCall) ~> ~IsNone(clob.batches[b].returned)

\* C37 witness: every slot is taken while a request waits for one, and a batch
\* has returned a dict with an entry for a request that failed and an entry for
\* one that succeeded
C37_FullWhileBatchReturned ==
    /\ clob.value = 0
    /\ \E b \in Batches, i \in 1..MaxBatch :
           i <= Len(clob.batches[b].tasks) /\ clob.batches[b].tasks[i].at = "waiting"
    /\ \E b \in Batches :
           /\ ~IsNone(clob.batches[b].returned)
           /\ \E t, u \in DOMAIN Val(clob.batches[b].returned) :
                  /\ Val(clob.batches[b].returned)[t] = None
                  /\ Val(clob.batches[b].returned)[u] # None

-----------------------------------------------------------------------------
(* Properties of the binary strategy, checked under SpecStrategy *)

\* both prices are served and positive
Quoted(quotes) ==
    /\ ~IsNone(quotes[1]) /\ ~IsNone(quotes[2])
    /\ Val(quotes[1]) > 0 /\ Val(quotes[2]) > 0

\* the market meets the strategy's liquidity threshold
LiquidEnough == analysis.market.liquidity >= analysis.min_liquidity

\* the underpriced condition: the asks sum to less than a dollar and the
\* profit, as a percentage of the cost, meets the threshold
UnderpricedHolds ==
    /\ Quoted(analysis.asks)
    /\ Val(analysis.asks[1]) + Val(analysis.asks[2]) < Unit
    /\ (Unit - (Val(analysis.asks[1]) + Val(analysis.asks[2]))) * 100
           >= analysis.min_profit * (Val(analysis.asks[1]) + Val(analysis.asks[2]))
    /\ LiquidEnough

\* the overpriced condition: the bids sum to more than a dollar and the
\* profit, as a percentage of the dollar, meets the threshold
OverpricedHolds ==
    /\ Quoted(analysis.bids)
    /\ Val(analysis.bids[1]) + Val(analysis.bids[2]) > Unit
    /\ (Val(analysis.bids[1]) + Val(analysis.bids[2])) - Unit >= analysis.min_profit
    /\ LiquidEnough

BinaryWithTwoTokens ==
    analysis.market.market_type = "BINARY" /\ Len(analysis.market.tokens) = 2

ReturnedType == IF IsNone(analysis.result) THEN "absent" ELSE Val(analysis.result).arb_type

\* C38: analyze returns nothing for a market that is not binary or has not
\* exactly two tokens; for a binary market with two tokens it returns the
\* underpriced opportunity whenever the underpriced condition holds, the
\* overpriced condition holding or not, the overpriced opportunity only when
\* the underpriced condition fails and the overpriced one holds, and nothing
\* when both fail
C38_UnderpricedFirst ==
    analysis.called =>
        ReturnedType = (IF ~BinaryWithTwoTokens THEN "absent"
                        ELSE IF UnderpricedHolds THEN "binary_underpriced"
                        ELSE IF OverpricedHolds THEN "binary_overpriced"
                        ELSE "absent")

\* C38 witness: analyze was called on a binary market for which both
\* conditions hold, and returned the underpriced opportunity
C38_BothHoldUnderpricedReturned ==
    /\ analysis.called
    /\ BinaryWithTwoTokens
    /\ UnderpricedHolds
    /\ OverpricedHolds
    /\ ReturnedType = "binary_underpriced"
    /\ Val(analysis.result).total_cost = Val(analysis.asks[1]) + Val(analysis.asks[2])

====
